---- MODULE Spec2Model ----
(***************************************************************************)
(* Table assignment engine of the dining-table application and the        *)
(* protocol by which its clients write tables to the shared Firestore     *)
(* store.                                                                  *)
(*                                                                         *)
(* A table is a record [id, members]; members is the ordered list of the  *)
(* member snapshots, each represented by the user id it was copied from.  *)
(* A table's name is always `Table n` for the same n as its id            *)
(* `table-n`, so it is not kept separately.  A user record is             *)
(* [id, location]; location is <<>> (null) or <<latitude, longitude>> in  *)
(* thousandths of a degree.                                               *)
(***************************************************************************)
EXTENDS Integers, Sequences, FiniteSets, TLC

(***************************************************************************)
(* Bounds of the model.                                                    *)
(***************************************************************************)
NumUsers == 5
NumClients == 2
MaxSteps == 7
MaxArgUsers == 3
MaxArgTables == 2
MaxArgIds == 3
MaxArgMembers == 3
MaxShuffleMembers == 2
MaxStatUsers == 12
MaxStatCap == 6
MaxFillUsers == 12
MaxFillCap == 6

UserIds == 1..NumUsers
Clients == 1..NumClients

(***************************************************************************)
(* Small helpers on sequences.                                             *)
(***************************************************************************)
Range(s) == {s[i] : i \in DOMAIN s}

RECURSIVE SelectIds(_, _)
\* keeps the elements of s that are not in the set ids (Array.filter)
SelectIds(s, ids) ==
  IF s = <<>> THEN <<>>
  ELSE IF Head(s) \in ids THEN SelectIds(Tail(s), ids)
       ELSE <<Head(s)>> \o SelectIds(Tail(s), ids)

RemoveAt(s, i) == SubSeq(s, 1, i - 1) \o SubSeq(s, i + 1, Len(s))

\* Array.findIndex / Array.find: first index whose element satisfies Test, 0 if none
FirstIndex(s, Test(_)) ==
  IF \E i \in DOMAIN s : Test(s[i])
  THEN CHOOSE i \in DOMAIN s : Test(s[i]) /\ \A j \in 1..(i - 1) : ~Test(s[j])
  ELSE 0

NoLocation == <<>>
NoUser == 0
NoTable == 0

(***************************************************************************)
(* Distribution engine: src/algorithms/tableAssignment.js                  *)
(***************************************************************************)
\* a faulty scan: on ties the last table seen is kept
FindTargetLast(result, i, targetTable, minMembers) ==
  LET open == {k \in i..Len(result) : Len(result[k].members) < minMembers}
      least == {k \in open : \A j \in open :
                   Len(result[k].members) <= Len(result[j].members)}
  IN IF least = {} THEN targetTable
     ELSE CHOOSE k \in least : \A j \in least : j <= k

RECURSIVE FindTarget(_, _, _, _)
\* the inner loop of assignRoundRobin: scans result from index i on, keeping
\* the index of the first table seen with strictly fewer members than
\* minMembers (0 stands for targetTable = null)
FindTarget(result, i, targetTable, minMembers) ==
  IF i > Len(result) THEN targetTable
  ELSE IF Len(result[i].members) < minMembers
       THEN FindTarget(result, i + 1, i, Len(result[i].members))
       ELSE FindTarget(result, i + 1, targetTable, minMembers)

\* a faulty placement: the user joins the first table, full or not
PlaceUserIgnoreCap(result, user, maxPeoplePerTable) ==
  IF result = <<>>
  THEN <<[id |-> 1, members |-> <<user.id>>]>>
  ELSE [result EXCEPT ![1].members = Append(@, user.id)]

\* one iteration of the outer loop of assignRoundRobin for one user
PlaceUser(result, user, maxPeoplePerTable) ==
  LET targetTable == FindTarget(result, 1, 0, maxPeoplePerTable)
  IN IF targetTable = 0 \/ Len(result[targetTable].members) >= maxPeoplePerTable
     THEN Append(result, [id |-> Len(result) + 1, members |-> <<user.id>>])
     ELSE [result EXCEPT ![targetTable].members = Append(@, user.id)]

RECURSIVE assignRoundRobin(_, _, _)
assignRoundRobin(users, tables, maxPeoplePerTable) ==
  IF users = <<>> THEN tables
  ELSE assignRoundRobin(Tail(users),
                        PlaceUser(tables, Head(users), maxPeoplePerTable),
                        maxPeoplePerTable)

\* Math.round(x * 100) for x given in thousandths: rounds half up
Round100(milli) == (milli + 5) \div 10

\* the key of a user's location group; the string `${a}-${b}` is determined
\* by and determines the pair <<a, b>>, and differs from 'unknown'
locationKey(user) ==
  IF user.location = NoLocation THEN <<"unknown">>
  ELSE <<Round100(user.location[1]), Round100(user.location[2])>>

RECURSIVE GroupKeys(_, _)
\* the keys of locationGroups in insertion order
GroupKeys(users, seen) ==
  IF users = <<>> THEN seen
  ELSE IF locationKey(Head(users)) \in Range(seen)
       THEN GroupKeys(Tail(users), seen)
       ELSE GroupKeys(Tail(users), Append(seen, locationKey(Head(users))))

RECURSIVE GroupUsers(_, _)
GroupUsers(users, key) ==
  IF users = <<>> THEN <<>>
  ELSE IF locationKey(Head(users)) = key
       THEN <<Head(users)>> \o GroupUsers(Tail(users), key)
       ELSE GroupUsers(Tail(users), key)

RECURSIVE AssignGroups(_, _, _, _)
AssignGroups(keys, users, result, maxPeoplePerTable) ==
  IF keys = <<>> THEN result
  ELSE AssignGroups(Tail(keys), users,
         result \o assignRoundRobin(GroupUsers(users, Head(keys)), <<>>, maxPeoplePerTable),
         maxPeoplePerTable)

\* a faulty location mode: the groups are ignored and existing tables reused
assignIgnoringLocation(users, tables, maxPeoplePerTable) ==
  assignRoundRobin(users, tables, maxPeoplePerTable)

assignByLocation(users, tables, maxPeoplePerTable) ==
  AssignGroups(GroupKeys(users, <<>>), users, tables, maxPeoplePerTable)

RECURSIVE MemberIds(_)
\* the ids of all members of all tables of a list
MemberIds(tables) ==
  IF tables = <<>> THEN {}
  ELSE Range(Head(tables).members) \cup MemberIds(Tail(tables))

RECURSIVE Unassigned(_, _)
Unassigned(users, assignedUserIds) ==
  IF users = <<>> THEN <<>>
  ELSE IF Head(users).id \in assignedUserIds
       THEN Unassigned(Tail(users), assignedUserIds)
       ELSE <<Head(users)>> \o Unassigned(Tail(users), assignedUserIds)

\* a faulty assign: the users already seated are not filtered out
assignNoFilter(users, settings, existingTables) ==
  IF settings.considerLocation
  THEN assignByLocation(users, existingTables, settings.maxPeoplePerTable)
  ELSE assignRoundRobin(users, existingTables, settings.maxPeoplePerTable)

assignUsersToTables(users, settings, existingTables) ==
  LET unassignedUsers == Unassigned(users, MemberIds(existingTables))
  IN IF settings.considerLocation
     THEN assignByLocation(unassignedUsers, existingTables, settings.maxPeoplePerTable)
     ELSE assignRoundRobin(unassignedUsers, existingTables, settings.maxPeoplePerTable)

\* the state in which assign leaves the caller's existingTables: round-robin
\* pushes new members onto the table objects it shares with the caller
ExistingAfterAssign(users, settings, existingTables) ==
  IF settings.considerLocation THEN existingTables
  ELSE SubSeq(assignUsersToTables(users, settings, existingTables), 1, Len(existingTables))


(***************************************************************************)
(* moveUserBetweenTables works on a copy of the tables; it returns the     *)
(* record [success, tables, message].                                      *)
(***************************************************************************)
\* a faulty move: the source table is dropped from the list when it is emptied
MoveDropEmptySource(tables, userId, fromTableId, toTableId, maxPeoplePerTable) ==
  LET fromTable == FirstIndex(tables, LAMBDA t : t.id = fromTableId)
      toTable == FirstIndex(tables, LAMBDA t : t.id = toTableId)
      userIndex == IF fromTable = 0 THEN 0
                   ELSE FirstIndex(tables[fromTable].members, LAMBDA m : m = userId)
  IN IF fromTable = 0 \/ toTable = 0
     THEN [success |-> FALSE, tables |-> tables, message |-> "Table not found"]
     ELSE IF Len(tables[toTable].members) >= maxPeoplePerTable
     THEN [success |-> FALSE, tables |-> tables, message |-> "Destination table is full"]
     ELSE IF userIndex = 0
     THEN [success |-> FALSE, tables |-> tables,
           message |-> "User not found in source table"]
     ELSE LET removed == [tables EXCEPT ![fromTable].members = RemoveAt(@, userIndex)]
              moved == [removed EXCEPT ![toTable].members = Append(@, userId)]
          IN [success |-> TRUE,
              tables |-> IF moved[fromTable].members = <<>>
                         THEN RemoveAt(moved, fromTable) ELSE moved,
              message |-> "User moved successfully"]

\* a faulty move: the user is looked up before the destination's size is checked
MoveUserCheckedFirst(tables, userId, fromTableId, toTableId, maxPeoplePerTable) ==
  LET fromTable == FirstIndex(tables, LAMBDA t : t.id = fromTableId)
      toTable == FirstIndex(tables, LAMBDA t : t.id = toTableId)
      userIndex == IF fromTable = 0 THEN 0
                   ELSE FirstIndex(tables[fromTable].members, LAMBDA m : m = userId)
  IN IF fromTable = 0 \/ toTable = 0
     THEN [success |-> FALSE, tables |-> tables, message |-> "Table not found"]
     ELSE IF userIndex = 0
     THEN [success |-> FALSE, tables |-> tables,
           message |-> "User not found in source table"]
     ELSE IF Len(tables[toTable].members) >= maxPeoplePerTable
     THEN [success |-> FALSE, tables |-> tables, message |-> "Destination table is full"]
     ELSE LET removed == [tables EXCEPT ![fromTable].members = RemoveAt(@, userIndex)]
          IN [success |-> TRUE,
              tables |-> [removed EXCEPT ![toTable].members = Append(@, userId)],
              message |-> "User moved successfully"]

\* a faulty move: the user is added to the destination and stays in the source
MoveKeepSource(tables, userId, fromTableId, toTableId, maxPeoplePerTable) ==
  LET fromTable == FirstIndex(tables, LAMBDA t : t.id = fromTableId)
      toTable == FirstIndex(tables, LAMBDA t : t.id = toTableId)
  IN IF fromTable = 0 \/ toTable = 0
     THEN [success |-> FALSE, tables |-> tables, message |-> "Table not found"]
     ELSE [success |-> TRUE,
           tables |-> [tables EXCEPT ![toTable].members = Append(@, userId)],
           message |-> "User moved successfully"]

moveUserBetweenTables(tables, userId, fromTableId, toTableId, maxPeoplePerTable) ==
  LET fromTable == FirstIndex(tables, LAMBDA t : t.id = fromTableId)
      toTable == FirstIndex(tables, LAMBDA t : t.id = toTableId)
  IN IF fromTable = 0 \/ toTable = 0
     THEN [success |-> FALSE, tables |-> tables, message |-> "Table not found"]
     ELSE IF Len(tables[toTable].members) >= maxPeoplePerTable
     THEN [success |-> FALSE, tables |-> tables, message |-> "Destination table is full"]
     ELSE LET userIndex == FirstIndex(tables[fromTable].members, LAMBDA m : m = userId)
          IN IF userIndex = 0
             THEN [success |-> FALSE, tables |-> tables,
                   message |-> "User not found in source table"]
             ELSE LET removed == [tables EXCEPT ![fromTable].members = RemoveAt(@, userIndex)]
                  IN [success |-> TRUE,
                      tables |-> [removed EXCEPT ![toTable].members = Append(@, userId)],
                      message |-> "User moved successfully"]

\* a faulty copy: the result shares its tables with the caller
InputSharedWithResult(tables, result) == result.tables

\* the state in which move leaves the caller's tables: result is made of a
\* copy of each table with a copy of its member list, so the splice and the
\* push reach no object of the caller
InputAfterMove(tables, result) == tables

(***************************************************************************)
(* shuffleTables: the members of all tables, permuted by the swaps of the  *)
(* loop (js[i] is the index drawn for position i), cut into fresh tables.  *)
(***************************************************************************)
RECURSIVE AllMembers(_)
AllMembers(tables) ==
  IF tables = <<>> THEN <<>>
  ELSE Head(tables).members \o AllMembers(Tail(tables))

\* a faulty swap: position i takes the other element, which stays where it was
SwapOverwrite(s, i, j) == [s EXCEPT ![i] = s[j]]

Swap(s, i, j) == [s EXCEPT ![i] = s[j], ![j] = s[i]]

\* the draws of Math.random: for each position i from the last down to the
\* second, an index in 1..i
SwapChoices(n) == {js \in [2..n -> 1..n] : \A i \in 2..n : js[i] <= i}

\* the draws the handlers are run with: the first index or the position itself
HandlerDraws(n) == {[i \in 2..n |-> IF first[i] THEN 1 ELSE i] : first \in [2..n -> BOOLEAN]}

RECURSIVE FisherYates(_, _, _)
FisherYates(s, i, js) ==
  IF i <= 1 THEN s ELSE FisherYates(Swap(s, i, js[i]), i - 1, js)

\* a faulty slicing: a table for each member
RechunkSingles(shuffledUsers, maxPeoplePerTable, newTables) ==
  [i \in 1..Len(shuffledUsers) |-> [id |-> i, members |-> <<shuffledUsers[i]>>]]

RECURSIVE Rechunk(_, _, _)
Rechunk(shuffledUsers, maxPeoplePerTable, newTables) ==
  IF shuffledUsers = <<>> THEN newTables
  ELSE LET n == IF Len(shuffledUsers) < maxPeoplePerTable
                THEN Len(shuffledUsers) ELSE maxPeoplePerTable
       IN Rechunk(SubSeq(shuffledUsers, n + 1, Len(shuffledUsers)), maxPeoplePerTable,
                  Append(newTables, [id |-> Len(newTables) + 1,
                                     members |-> SubSeq(shuffledUsers, 1, n)]))

shuffleTables(tables, maxPeoplePerTable, js) ==
  LET allUsers == AllMembers(tables)
  IN Rechunk(FisherYates(allUsers, Len(allUsers), js), maxPeoplePerTable, <<>>)

(***************************************************************************)
(* The shared store.  The tables collection is kept as the list of its     *)
(* documents in document-id order, which is what a snapshot listener       *)
(* delivers.  A write is [op, coll, id, value].                            *)
(***************************************************************************)
RECURSIVE InsertTable(_, _)
InsertTable(docs, t) ==
  IF docs = <<>> THEN <<t>>
  ELSE IF Head(docs).id > t.id THEN <<t>> \o docs
       ELSE <<Head(docs)>> \o InsertTable(Tail(docs), t)

RECURSIVE RemoveTable(_, _)
RemoveTable(docs, id) ==
  IF docs = <<>> THEN <<>>
  ELSE IF Head(docs).id = id THEN RemoveTable(Tail(docs), id)
       ELSE <<Head(docs)>> \o RemoveTable(Tail(docs), id)

DeleteWrite(id) == [op |-> "delete", coll |-> "tables", id |-> id, value |-> <<>>]
SetWrite(t) == [op |-> "set", coll |-> "tables", id |-> t.id, value |-> t.members]
SettingsWrite(s) == [op |-> "set", coll |-> "settings", id |-> 0, value |-> s]
UserDeleteWrite(id) == [op |-> "delete", coll |-> "users", id |-> id, value |-> <<>>]

RECURSIVE DeleteWrites(_)
DeleteWrites(tables) ==
  IF tables = <<>> THEN <<>>
  ELSE <<DeleteWrite(Head(tables).id)>> \o DeleteWrites(Tail(tables))

RECURSIVE UserDeleteWrites(_)
UserDeleteWrites(users) ==
  IF users = <<>> THEN <<>>
  ELSE <<UserDeleteWrite(Head(users).id)>> \o UserDeleteWrites(Tail(users))

RECURSIVE SetWrites(_)
SetWrites(tables) ==
  IF tables = <<>> THEN <<>>
  ELSE <<SetWrite(Head(tables))>> \o SetWrites(Tail(tables))

\* a faulty set: the written members are added to those of the stored document
ApplyWriteMerging(docs, w) ==
  IF w.coll # "tables" THEN docs
  ELSE IF w.op = "delete" THEN RemoveTable(docs, w.id)
  ELSE LET old == FirstIndex(docs, LAMBDA t : t.id = w.id)
       IN IF old = 0 THEN InsertTable(docs, [id |-> w.id, members |-> w.value])
          ELSE [docs EXCEPT ![old].members = @ \o w.value]

\* a delete removes the document; a set of a document replaces the whole document
ApplyWrite(docs, w) ==
  IF w.coll # "tables" THEN docs
  ELSE IF w.op = "delete" THEN RemoveTable(docs, w.id)
  ELSE InsertTable(RemoveTable(docs, w.id), [id |-> w.id, members |-> w.value])

RECURSIVE WrittenTables(_, _)
WrittenTables(docs, writes) ==
  IF writes = <<>> THEN docs
  ELSE WrittenTables(ApplyWrite(docs, Head(writes)), Tail(writes))

\* a faulty commit: the batch replaces the whole collection
TablesAfterReplacing(docs, writes) == WrittenTables(<<>>, writes)

RECURSIVE TablesAfter(_, _)
\* the tables collection after a batch commits: its writes applied in order
TablesAfter(docs, writes) ==
  IF writes = <<>> THEN docs
  ELSE TablesAfter(ApplyWrite(docs, Head(writes)), Tail(writes))

\* the ids of the users collection after a batch commits
UsersAfter(ids, writes) ==
  SelectIds(ids, {writes[i].id : i \in {k \in DOMAIN writes : writes[k].coll = "users"}})

RECURSIVE SettingsAfter(_, _)
SettingsAfter(s, writes) ==
  IF writes = <<>> THEN s
  ELSE SettingsAfter(IF Head(writes).coll = "settings" THEN Head(writes).value ELSE s,
                     Tail(writes))


(***************************************************************************)
(* State.  The store: storeUsers (the ids of the users collection, newest  *)
(* lastUpdated first), storeTables, storeSettings, storeProfiles (the     *)
(* role and the edited name of each user document).  Per client: the auth  *)
(* state, the listener-fed copies users/tables/settings of AuthProvider,   *)
(* Dashboard's myTable, the mounted view and its loading flag, the writes  *)
(* handed to the store and not yet settled (inflight, oldest first), and   *)
(* whether a tables notification is due.  commits keeps the two latest     *)
(* committed batches, newest first, each with the tables before it.        *)
(* args/ret hold the inputs and the result of a direct call of an engine   *)
(* function.  steps counts the steps taken.                                *)
(***************************************************************************)
VARIABLES storeUsers, storeTables, storeSettings, storeProfiles,
          currentUser, userProfile, users, tables, settings,
          myTable, view, loading, inflight, tablesDue,
          commits, cleanupFailed, steps, args, ret

vars == <<storeUsers, storeTables, storeSettings, storeProfiles,
          currentUser, userProfile, users, tables, settings,
          myTable, view, loading, inflight, tablesDue,
          commits, cleanupFailed, steps, args, ret>>

storeVars == <<storeUsers, storeTables, storeSettings, storeProfiles>>

DefaultCap == 5
MinCap == 2
MaxCapChoice == 3
CapChoices == MinCap..MaxCapChoice

DefaultSettings == [maxPeoplePerTable |-> DefaultCap, considerLocation |-> FALSE]
NoProfile == <<>>
\* the settings document is absent
NoSettings == <<>>
NoArgs == <<>>
NoRet == <<>>

\* where the geolocation provider places each user: users 1 and 2 in the same
\* hundredth of a degree, user 3 without a location, any other user elsewhere
Location(u) ==
  CASE u = 1 -> <<30044, 31236>>
    [] u = 2 -> <<30041, 31238>>
    [] u = 3 -> NoLocation
    [] OTHER -> <<31200, 29919>>

\* the role field of the user documents, granted outside the application
RoleOf(u) == IF u = 1 THEN "admin" ELSE ""

\* the editable fields of a user document that loadUserProfile has just created
NewProfile == [role |-> "", displayName |-> 0]
NoProfiles == [u \in UserIds |-> NewProfile]

\* the user documents of an event whose participants have not edited their
\* profiles
InitialProfiles == [u \in UserIds |-> [role |-> RoleOf(u), displayName |-> 0]]

\* the profile a client holds: the fields of the document it has read
ProfileOf(loc, fields) ==
  [location |-> loc, role |-> fields.role, displayName |-> fields.displayName]

\* the accounts used on each client (device)
Accounts(c) == {u \in UserIds : u % NumClients = c % NumClients}

UserRecord(u) == [id |-> u, location |-> Location(u)]

\* the users listener: the documents in lastUpdated order
UsersSnapshot(ids) == [i \in 1..Len(ids) |-> UserRecord(ids[i])]

\* a faulty gate: any signed-in user passes
isSignedIn(c) == currentUser[c] # NoUser /\ userProfile[c] # NoProfile

isSuperAdmin(c) ==
  /\ currentUser[c] # NoUser
  /\ userProfile[c] # NoProfile
  /\ userProfile[c].role = "super-admin"

isAdmin(c) ==
  /\ currentUser[c] # NoUser
  /\ userProfile[c] # NoProfile
  /\ userProfile[c].role \in {"admin", "super-admin"}

\* renderCurrentView (App.js): AdminPanel is mounted for an admin on the admin
\* view, Dashboard otherwise
AdminMounted(c) == currentUser[c] # NoUser /\ view[c] = "admin" /\ isAdmin(c)
ProfileMounted(c) == currentUser[c] # NoUser /\ view[c] = "profile"
DashboardMounted(c) == currentUser[c] # NoUser /\ ~AdminMounted(c) /\ ~ProfileMounted(c)

\* Dashboard's effect: the first table of the snapshot that has the user
MembershipIndex(uid, tbls) ==
  IF uid # NoUser /\ Len(tbls) > 0
  THEN LET i == FirstIndex(tbls, LAMBDA t : uid \in Range(t.members))
       IN IF i = 0 THEN NoTable ELSE tbls[i].id
  ELSE NoTable

TableIds(tbls) == {tbls[i].id : i \in DOMAIN tbls}
TableWithId(tbls, id) == tbls[FirstIndex(tbls, LAMBDA t : t.id = id)]

Batch(kind, c, writes, snap, result, dest, cap) ==
  [kind |-> kind, by |-> c, user |-> currentUser[c], writes |-> writes,
   snap |-> snap, result |-> result, dest |-> dest, cap |-> cap, live |-> TRUE]

Unmounted(queue) == [i \in DOMAIN queue |-> [queue[i] EXCEPT !.live = FALSE]]

\* the accounts whose session a client may have persisted: its first two
InitialAccounts(c) ==
  {u \in Accounts(c) : Cardinality({w \in Accounts(c) : w < u}) < 2}

\* the second of them
InitialAccount(c) ==
  CHOOSE u \in InitialAccounts(c) : \A w \in InitialAccounts(c) : w <= u

\* the users collection of an event whose participants have all signed in
\* once, user 1 first
Registered == [i \in 1..NumUsers |-> NumUsers + 1 - i]

\* what the admin may have saved in the settings document
SavedSettings == [maxPeoplePerTable : CapChoices, considerLocation : BOOLEAN]

\* the settings document after the admin has saved the smallest table size
InitialSettings == [maxPeoplePerTable |-> MinCap, considerLocation |-> FALSE]

\* the tables collection after the admin's round-robin Reassign All Users
\* with tables of cap seats
Seating(cap) ==
  TablesAfter(<<>>, SetWrites(assignUsersToTables(UsersSnapshot(Registered),
                 [maxPeoplePerTable |-> cap, considerLocation |-> FALSE], <<>>)))

\* a client that has just loaded the application with a persisted session:
\* the profile is loaded, nothing is being written
Loaded ==
  /\ storeProfiles = InitialProfiles
  /\ userProfile = [c \in Clients |->
        ProfileOf(Location(currentUser[c]), storeProfiles[currentUser[c]])]
  /\ view = [c \in Clients |-> "dashboard"]
  /\ loading = [c \in Clients |-> FALSE]
  /\ inflight = [c \in Clients |-> <<>>]
  /\ commits = <<>>
  /\ cleanupFailed = [c \in Clients |-> FALSE]
  /\ steps = 0
  /\ args = NoArgs
  /\ ret = NoRet

\* the store of a running event, with or without a seating, and clients each
\* of whose listeners have either all delivered or not delivered yet
Init ==
  /\ storeUsers = Registered
  /\ storeSettings = InitialSettings
  /\ storeTables \in {<<>>, Seating(MinCap)}
  /\ currentUser = [c \in Clients |-> InitialAccount(c)]
  /\ \E delivered \in [Clients -> BOOLEAN] :
        /\ users = [c \in Clients |->
                      IF delivered[c] THEN UsersSnapshot(storeUsers) ELSE <<>>]
        /\ tables = [c \in Clients |-> IF delivered[c] THEN storeTables ELSE <<>>]
        /\ settings = [c \in Clients |->
                         IF delivered[c] THEN storeSettings ELSE DefaultSettings]
        /\ myTable = [c \in Clients |->
                        IF delivered[c] THEN MembershipIndex(currentUser[c], storeTables)
                        ELSE NoTable]
        /\ tablesDue = [c \in Clients |-> ~delivered[c] /\ storeTables # <<>>]
  /\ Loaded

\* the store of a running event with any saved settings, without tables or
\* with a seating made for the saved table size or a smaller one, and clients
\* whose listeners have all delivered
InitSettled ==
  /\ storeUsers = Registered
  /\ storeSettings \in SavedSettings
  /\ storeTables \in {<<>>} \cup {Seating(cap) : cap \in MinCap..storeSettings.maxPeoplePerTable}
  /\ currentUser \in {f \in [Clients -> UserIds] : \A c \in Clients : f[c] \in InitialAccounts(c)}
  /\ users = [c \in Clients |-> UsersSnapshot(storeUsers)]
  /\ tables = [c \in Clients |-> storeTables]
  /\ settings = [c \in Clients |-> storeSettings]
  /\ myTable = [c \in Clients |-> MembershipIndex(currentUser[c], storeTables)]
  /\ tablesDue = [c \in Clients |-> FALSE]
  /\ Loaded

\* every step counts towards the bound on the length of a run
Step ==
  /\ steps < MaxSteps
  /\ steps' = steps + 1

(***************************************************************************)
(* What each handler computes from the client's copies.                    *)
(***************************************************************************)
\* handleAssignTable, lines 77-100: the users with an id, plus the current
\* user when the users copy does not have them yet
\* the id of a user record that has none: undefined or empty
MissingId == NoUser

\* users.filter(user => user.id)
WithId(usersL) == SelectSeq(usersL, LAMBDA user : user.id # MissingId)

AssignUsers(uid, profile, usersL) ==
  LET allUsers == WithId(usersL)
  IN IF \E i \in DOMAIN allUsers : allUsers[i].id = uid
     THEN allUsers
     ELSE Append(allUsers, [id |-> uid, location |-> profile.location])

AssignWrites(tablesL, newTables) == DeleteWrites(tablesL) \o SetWrites(newTables)

\* handleChangeTable, lines 179-185: every table of the result is set
MoveWrites(resultTables) == SetWrites(resultTables)

\* a faulty cleanup: the table is written back even when nobody is left
ExitWritesKeepEmpty(uid, tablesL) ==
  LET i == FirstIndex(tablesL, LAMBDA t : uid \in Range(t.members))
  IN IF i = 0 THEN <<>>
     ELSE <<SetWrite([id |-> tablesL[i].id,
                      members |-> SelectIds(tablesL[i].members, {uid})])>>

\* removeUserFromTable: the write for the first table that has the user
ExitWrites(uid, tablesL) ==
  LET i == FirstIndex(tablesL, LAMBDA t : uid \in Range(t.members))
  IN IF i = 0 THEN <<>>
     ELSE LET updatedMembers == SelectIds(tablesL[i].members, {uid})
          IN IF Len(updatedMembers) = 0
             THEN <<DeleteWrite(tablesL[i].id)>>
             ELSE <<SetWrite([id |-> tablesL[i].id, members |-> updatedMembers])>>

(***************************************************************************)
(* Sign-in and the listeners.                                              *)
(***************************************************************************)
\* onAuthStateChanged with a user: loadUserProfile reads the user document
\* or creates it
SignIn(c, u) ==
  /\ Step
  /\ currentUser[c] = NoUser
  /\ currentUser' = [currentUser EXCEPT ![c] = u]
  /\ userProfile' = [userProfile EXCEPT ![c] =
        IF u \in Range(storeUsers) THEN ProfileOf(Location(u), storeProfiles[u])
        ELSE ProfileOf(NoLocation, NewProfile)]
  /\ storeUsers' = IF u \in Range(storeUsers) THEN storeUsers ELSE <<u>> \o storeUsers
  /\ storeProfiles' = IF u \in Range(storeUsers) THEN storeProfiles
                      ELSE [storeProfiles EXCEPT ![u] = NewProfile]
  /\ myTable' = [myTable EXCEPT ![c] =
        IF view[c] = "admin" /\ userProfile'[c].role \in {"admin", "super-admin"}
        THEN NoTable ELSE MembershipIndex(u, tables[c])]
  /\ cleanupFailed' = [cleanupFailed EXCEPT ![c] = FALSE]
  /\ UNCHANGED <<storeTables, storeSettings, users, tables, settings, view, loading,
                 inflight, tablesDue, commits, args, ret>>

NotifyUsers(c) ==
  /\ Step
  /\ users[c] # UsersSnapshot(storeUsers)
  /\ users' = [users EXCEPT ![c] = UsersSnapshot(storeUsers)]
  /\ UNCHANGED <<storeVars, currentUser, userProfile, tables, settings, myTable, view,
                 loading, inflight, tablesDue, commits, cleanupFailed, args, ret>>

\* a faulty listener: a table found earlier is kept
NotifyTablesKeeping(c) ==
  /\ Step
  /\ tablesDue[c]
  /\ tablesDue' = [tablesDue EXCEPT ![c] = FALSE]
  /\ tables' = [tables EXCEPT ![c] = storeTables]
  /\ myTable' = [myTable EXCEPT ![c] =
        IF DashboardMounted(c) /\ @ = NoTable
        THEN MembershipIndex(currentUser[c], storeTables) ELSE @]
  /\ UNCHANGED <<storeVars, currentUser, userProfile, users, settings, view, loading,
                 inflight, commits, cleanupFailed, args, ret>>

NotifyTables(c) ==
  /\ Step
  /\ tablesDue[c]
  /\ tablesDue' = [tablesDue EXCEPT ![c] = FALSE]
  /\ tables' = [tables EXCEPT ![c] = storeTables]
  /\ myTable' = [myTable EXCEPT ![c] =
        IF DashboardMounted(c)
        THEN MembershipIndex(currentUser[c], storeTables) ELSE NoTable]
  /\ UNCHANGED <<storeVars, currentUser, userProfile, users, settings, view, loading,
                 inflight, commits, cleanupFailed, args, ret>>

\* the creation of the default settings by the settings listener of client c
InitBatch(c) ==
  [Batch("init", c, <<SettingsWrite(DefaultSettings)>>, tables[c], <<>>, NoTable,
         DefaultCap) EXCEPT !.live = FALSE]

InitPending(c) == \E i \in DOMAIN inflight[c] : inflight[c][i].kind = "init"

\* the settings listener: a snapshot of the document is merged into the
\* copy; a snapshot without the document starts the creation of the default
\* settings
NotifySettings(c) ==
  /\ Step
  /\ IF storeSettings = NoSettings
     THEN /\ ~InitPending(c)
          /\ inflight' = [inflight EXCEPT ![c] = Append(@, InitBatch(c))]
          /\ UNCHANGED settings
     ELSE /\ settings[c] # storeSettings
          /\ settings' = [settings EXCEPT ![c] = storeSettings]
          /\ UNCHANGED inflight
  /\ UNCHANGED <<storeVars, currentUser, userProfile, users, tables, myTable, view,
                 loading, tablesDue, commits, cleanupFailed, args, ret>>

\* the header navigation (App.js): the other view is mounted afresh
Navigate(c, v) ==
  /\ Step
  /\ currentUser[c] # NoUser
  /\ v # view[c]
  /\ v = "admin" => isAdmin(c)
  /\ view' = [view EXCEPT ![c] = v]
  /\ IF isAdmin(c) \/ "profile" \in {v, view[c]}
     THEN /\ loading' = [loading EXCEPT ![c] = FALSE]
          /\ inflight' = [inflight EXCEPT ![c] = Unmounted(@)]
          /\ myTable' = [myTable EXCEPT ![c] =
                IF v = "dashboard" THEN MembershipIndex(currentUser[c], tables[c])
                ELSE NoTable]
     ELSE UNCHANGED <<loading, inflight, myTable>>
  /\ UNCHANGED <<storeVars, currentUser, userProfile, users, tables, settings,
                 tablesDue, commits, cleanupFailed, args, ret>>


(***************************************************************************)
(* The handlers.  Each computes its writes from the client's copies and    *)
(* hands them to the store; the batch settles later (Commit or Fail).      *)
(***************************************************************************)
CanStart(c) == ~loading[c]

Enqueue(c, b) == inflight' = [inflight EXCEPT ![c] = Append(@, b)]

\* Dashboard.handleAssignTable on the copies usersL, tablesL, settingsL
AssignBatch(c, usersL, tablesL, settingsL) ==
  LET allUsers == AssignUsers(currentUser[c], userProfile[c], usersL)
      newTables == assignUsersToTables(allUsers, settingsL, tablesL)
      mutated == ExistingAfterAssign(allUsers, settingsL, tablesL)
  IN Batch("assign", c, AssignWrites(mutated, newTables), tablesL, newTables, NoTable,
           settingsL.maxPeoplePerTable)

\* its button shows while myTable is unset; nothing is written when the
\* result is empty
handleAssignTable(c) ==
  /\ Step
  /\ DashboardMounted(c) /\ CanStart(c)
  /\ myTable[c] = NoTable
  /\ LET b == AssignBatch(c, users[c], tables[c], settings[c])
     IN /\ Len(b.result) > 0
        /\ tables' = [tables EXCEPT ![c] = SubSeq(b.result, 1, Len(tables[c]))]
        /\ Enqueue(c, b)
  /\ loading' = [loading EXCEPT ![c] = TRUE]
  /\ UNCHANGED <<storeVars, currentUser, userProfile, users, settings, myTable, view,
                 tablesDue, commits, cleanupFailed, args, ret>>

\* the "Join Table" buttons of Dashboard: one for each other table of the
\* copy, disabled when that table is full
CanJoin(tablesL, settingsL, from, newTableId) ==
  /\ from # NoTable
  /\ newTableId \in TableIds(tablesL) \ {from}
  /\ Len(TableWithId(tablesL, newTableId).members) < settingsL.maxPeoplePerTable

MoveResult(c, tablesL, settingsL, from, newTableId) ==
  moveUserBetweenTables(tablesL, currentUser[c], from, newTableId,
                        settingsL.maxPeoplePerTable)

\* Dashboard.handleChangeTable on the copies tablesL, settingsL
\* a faulty handler: the tables of a failed move are written as well
ChangeTableWritesAlways(result) == MoveWrites(result.tables)

\* handleChangeTable, lines 172-185: a failed move is reported and nothing is
\* written
ChangeTableWrites(result) ==
  IF result.success THEN MoveWrites(result.tables) ELSE <<>>

MoveBatch(c, tablesL, settingsL, from, newTableId) ==
  LET result == MoveResult(c, tablesL, settingsL, from, newTableId)
  IN Batch("move", c, ChangeTableWrites(result), tablesL, result.tables, newTableId,
           settingsL.maxPeoplePerTable)

\* a failed move ends the handler before any await: loading is set and reset
handleChangeTable(c, newTableId) ==
  /\ Step
  /\ DashboardMounted(c) /\ CanStart(c)
  /\ CanJoin(tables[c], settings[c], myTable[c], newTableId)
  /\ LET b == MoveBatch(c, tables[c], settings[c], myTable[c], newTableId)
     IN IF MoveResult(c, tables[c], settings[c], myTable[c], newTableId).success
        THEN /\ Enqueue(c, b)
             /\ loading' = [loading EXCEPT ![c] = TRUE]
        ELSE UNCHANGED <<inflight, loading>>
  /\ UNCHANGED <<storeVars, currentUser, userProfile, users, tables, settings, myTable,
                 view, tablesDue, commits, cleanupFailed, args, ret>>

\* signOut: the auth listener clears the user and the profile, Dashboard unmounts
SignedOut(c) ==
  /\ currentUser' = [currentUser EXCEPT ![c] = NoUser]
  /\ userProfile' = [userProfile EXCEPT ![c] = NoProfile]
  /\ myTable' = [myTable EXCEPT ![c] = NoTable]
  /\ loading' = [loading EXCEPT ![c] = FALSE]

LoggingOut(c) == \E i \in DOMAIN inflight[c] : inflight[c][i].kind = "exit"

\* a faulty logout: the departing user's document is deleted with the table
\* write
ExitBatchDeletingUser(c, tablesL, settingsL) ==
  Batch("exit", c, ExitWrites(currentUser[c], tablesL) \o <<UserDeleteWrite(currentUser[c])>>,
        tablesL, <<>>, NoTable, settingsL.maxPeoplePerTable)

\* AuthContext.logout from Dashboard's Logout button: removeUserFromTable,
\* then signOut once the table write has settled
ExitBatch(c, tablesL, settingsL) ==
  Batch("exit", c, ExitWrites(currentUser[c], tablesL), tablesL, <<>>, NoTable,
        settingsL.maxPeoplePerTable)

logout(c) ==
  /\ Step
  /\ DashboardMounted(c) /\ ~LoggingOut(c)
  /\ LET b == ExitBatch(c, tables[c], settings[c])
     IN IF b.writes = <<>>
        THEN /\ SignedOut(c)
             /\ inflight' = [inflight EXCEPT ![c] = Unmounted(@)]
        ELSE /\ Enqueue(c, b)
             /\ UNCHANGED <<currentUser, userProfile, myTable, loading>>
  /\ UNCHANGED <<storeVars, users, tables, settings, view, tablesDue, commits, cleanupFailed, args, ret>>

\* AdminPanel.handleShuffleTables; js are the draws of Math.random
ShuffleBatch(c, tablesL, settingsL, js) ==
  LET shuffledTables == shuffleTables(tablesL, settingsL.maxPeoplePerTable, js)
  IN Batch("shuffle", c, AssignWrites(tablesL, shuffledTables), tablesL, shuffledTables,
           NoTable, settingsL.maxPeoplePerTable)

handleShuffleTables(c, js) ==
  /\ Step
  /\ AdminMounted(c) /\ CanStart(c)
  /\ Len(tables[c]) > 0
  /\ Enqueue(c, ShuffleBatch(c, tables[c], settings[c], js))
  /\ loading' = [loading EXCEPT ![c] = TRUE]
  /\ UNCHANGED <<storeVars, currentUser, userProfile, users, tables, settings, myTable,
                 view, tablesDue, commits, cleanupFailed, args, ret>>

\* AdminPanel.handleReassignAll
ReassignBatch(c, usersL, tablesL, settingsL) ==
  LET allUsers == WithId(usersL)
      newTables == assignUsersToTables(allUsers, settingsL, <<>>)
  IN Batch("reassign", c, AssignWrites(tablesL, newTables), tablesL, newTables, NoTable,
           settingsL.maxPeoplePerTable)

handleReassignAll(c) ==
  /\ Step
  /\ AdminMounted(c) /\ CanStart(c)
  /\ Enqueue(c, ReassignBatch(c, users[c], tables[c], settings[c]))
  /\ loading' = [loading EXCEPT ![c] = TRUE]
  /\ UNCHANGED <<storeVars, currentUser, userProfile, users, tables, settings, myTable,
                 view, tablesDue, commits, cleanupFailed, args, ret>>

\* AdminPanel.handleClearAllTables
ClearBatch(c, tablesL, settingsL) ==
  Batch("clear", c, DeleteWrites(tablesL), tablesL, <<>>, NoTable,
        settingsL.maxPeoplePerTable)

handleClearAllTables(c) ==
  /\ Step
  /\ AdminMounted(c) /\ CanStart(c)
  /\ Len(tables[c]) > 0
  /\ Enqueue(c, ClearBatch(c, tables[c], settings[c]))
  /\ loading' = [loading EXCEPT ![c] = TRUE]
  /\ UNCHANGED <<storeVars, currentUser, userProfile, users, tables, settings, myTable,
                 view, tablesDue, commits, cleanupFailed, args, ret>>

\* AdminPanel.handleResetAllUsers with the answer to its prompt: 1 deletes
\* the tables of the copy, 2 also deletes the user documents of the copy
ResetBatch(c, usersL, tablesL, settingsL, action) ==
  Batch("reset", c,
        DeleteWrites(tablesL) \o (IF action = 2 THEN UserDeleteWrites(usersL) ELSE <<>>),
        tablesL, <<>>, NoTable, settingsL.maxPeoplePerTable)

handleResetAllUsers(c, action) ==
  /\ Step
  /\ AdminMounted(c) /\ CanStart(c)
  /\ Enqueue(c, ResetBatch(c, users[c], tables[c], settings[c], action))
  /\ loading' = [loading EXCEPT ![c] = TRUE]
  /\ UNCHANGED <<storeVars, currentUser, userProfile, users, tables, settings, myTable,
                 view, tablesDue, commits, cleanupFailed, args, ret>>

\* AdminPanel.handleSaveSettings with the form's values
SettingsBatch(c, tablesL, cap, loc) ==
  LET newSettings == [maxPeoplePerTable |-> cap, considerLocation |-> loc]
  IN Batch("settings", c, <<SettingsWrite(newSettings)>>, tablesL, <<>>, NoTable, cap)

handleSaveSettings(c, cap, loc) ==
  /\ Step
  /\ AdminMounted(c) /\ CanStart(c)
  /\ Enqueue(c, SettingsBatch(c, tables[c], cap, loc))
  /\ loading' = [loading EXCEPT ![c] = TRUE]
  /\ UNCHANGED <<storeVars, currentUser, userProfile, users, tables, settings, myTable,
                 view, tablesDue, commits, cleanupFailed, args, ret>>

(***************************************************************************)
(* A batch settles: the store applies all of its writes at once, or none.  *)
(***************************************************************************)
Record(b) ==
  <<[batch |-> b, before |-> storeTables]>>
    \o (IF commits = <<>> THEN <<>> ELSE <<commits[1]>>)

\* what the handler does once its await has settled
Resolve(c, b) ==
  /\ inflight' = [inflight EXCEPT ![c] = IF b.kind = "exit" THEN Unmounted(Tail(@))
                                          ELSE Tail(@)]
  /\ IF b.kind = "exit"
     THEN SignedOut(c)
     ELSE /\ loading' = [loading EXCEPT ![c] = IF b.live THEN FALSE ELSE @]
          /\ UNCHANGED <<currentUser, userProfile, myTable>>

Commit(c) ==
  /\ Step
  /\ inflight[c] # <<>>
  /\ LET b == Head(inflight[c])
     IN /\ storeTables' = TablesAfter(storeTables, b.writes)
        /\ storeSettings' = SettingsAfter(storeSettings, b.writes)
        /\ tablesDue' = IF storeTables' # storeTables
                        THEN [d \in Clients |-> TRUE] ELSE tablesDue
        /\ commits' = Record(b)
        /\ storeUsers' = UsersAfter(storeUsers, b.writes)
        /\ storeProfiles' = [u \in UserIds |->
              IF u \in Range(storeUsers') THEN storeProfiles[u] ELSE NewProfile]
        /\ settings' = IF b.kind = "init"
                       THEN [settings EXCEPT ![c] = DefaultSettings] ELSE settings
        /\ Resolve(c, b)
  /\ UNCHANGED <<users, tables, view, cleanupFailed, args, ret>>

\* a faulty logout: the failure of the table write ends logout, and the user
\* stays signed in
FailThrows(c) ==
  /\ Step
  /\ inflight[c] # <<>>
  /\ inflight' = [inflight EXCEPT ![c] = Tail(@)]
  /\ cleanupFailed' = [cleanupFailed EXCEPT ![c] = @ \/ Head(inflight[c]).kind = "exit"]
  /\ loading' = [loading EXCEPT ![c] = IF Head(inflight[c]).live THEN FALSE ELSE @]
  /\ UNCHANGED <<storeVars, currentUser, userProfile, myTable, users, tables, settings,
                 view, tablesDue, commits, args, ret>>

\* a faulty handler: a rejected batch leaves the loading flag set
FailKeepsLoading(c) ==
  /\ Step
  /\ inflight[c] # <<>>
  /\ inflight' = [inflight EXCEPT ![c] = IF Head(@).kind = "exit" THEN Unmounted(Tail(@))
                                          ELSE Tail(@)]
  /\ IF Head(inflight[c]).kind = "exit"
     THEN SignedOut(c)
     ELSE UNCHANGED <<currentUser, userProfile, myTable, loading>>
  /\ cleanupFailed' = [cleanupFailed EXCEPT ![c] = @ \/ Head(inflight[c]).kind = "exit"]
  /\ UNCHANGED <<storeVars, users, tables, settings, view, tablesDue, commits, args, ret>>

\* the batch is rejected: nothing is written.  removeUserFromTable catches
\* the error and logs it, every other handler reports it
Fail(c) ==
  /\ Step
  /\ inflight[c] # <<>>
  /\ Resolve(c, Head(inflight[c]))
  /\ cleanupFailed' = [cleanupFailed EXCEPT ![c] = @ \/ Head(inflight[c]).kind = "exit"]
  /\ UNCHANGED <<storeVars, users, tables, settings, view, tablesDue, commits, args, ret>>

Next ==
  \/ \E c \in Clients, u \in UserIds : u \in Accounts(c) /\ SignIn(c, u)
  \/ \E c \in Clients : NotifyUsers(c)
  \/ \E c \in Clients : NotifyTables(c)
  \/ \E c \in Clients : NotifySettings(c)
  \/ \E c \in Clients, v \in {"dashboard", "admin"} : Navigate(c, v)
  \/ \E c \in Clients : handleAssignTable(c)
  \/ \E c \in Clients, t \in 1..NumUsers : handleChangeTable(c, t)
  \/ \E c \in Clients : logout(c)
  \/ \E c \in Clients : \E js \in HandlerDraws(Len(AllMembers(tables[c]))) :
        handleShuffleTables(c, js)
  \/ \E c \in Clients : handleReassignAll(c)
  \/ \E c \in Clients : handleClearAllTables(c)
  \/ \E c \in Clients, action \in {1, 2} : handleResetAllUsers(c, action)
  \/ \E c \in Clients, cap \in CapChoices, loc \in BOOLEAN : handleSaveSettings(c, cap, loc)
  \/ \E c \in Clients : Commit(c)
  \/ \E c \in Clients : Fail(c)

Spec == Init /\ [][Next]_vars

(***************************************************************************)
(* Settled, non-racing executions: a handler starts only when nothing is   *)
(* being written and its client's copy of the tables is the store's        *)
(* content, and every batch commits.  The users listener may deliver at   *)
(* any time.                                                               *)
(***************************************************************************)
Quiet == \A c \in Clients : inflight[c] = <<>>

Fresh(c) == Quiet /\ tables[c] = storeTables

SettledNext ==
  \/ \E c \in Clients, u \in UserIds : u \in Accounts(c) /\ SignIn(c, u)
  \/ \E c \in Clients : NotifyUsers(c)
  \/ \E c \in Clients : NotifyTables(c)
  \/ \E c \in Clients : NotifySettings(c)
  \/ \E c \in Clients, v \in {"dashboard", "admin"} : Navigate(c, v)
  \/ \E c \in Clients : Fresh(c) /\ handleAssignTable(c)
  \/ \E c \in Clients, t \in 1..NumUsers : Fresh(c) /\ handleChangeTable(c, t)
  \/ \E c \in Clients : Fresh(c) /\ logout(c)
  \/ \E c \in Clients : \E js \in HandlerDraws(Len(AllMembers(tables[c]))) :
        Fresh(c) /\ handleShuffleTables(c, js)
  \/ \E c \in Clients : Fresh(c) /\ handleReassignAll(c)
  \/ \E c \in Clients : Fresh(c) /\ handleClearAllTables(c)
  \/ \E c \in Clients, action \in {1, 2} : Fresh(c) /\ handleResetAllUsers(c, action)
  \/ \E c \in Clients, cap \in CapChoices, loc \in BOOLEAN :
        Fresh(c) /\ handleSaveSettings(c, cap, loc)
  \/ \E c \in Clients : Commit(c)

SpecSettled == InitSettled /\ [][SettledNext]_vars

(***************************************************************************)
(* Direct calls of assignUsersToTables on arguments drawn from bounded     *)
(* sets: users of the ids 1..MaxArgIds in lists of up to MaxArgUsers, up   *)
(* to MaxArgTables existing tables named by their position, each with up   *)
(* to MaxArgMembers members.                                               *)
(***************************************************************************)
SeqsUpTo(S, n) == UNION {[1..k -> S] : k \in 0..n}

ArgUsers == {UsersSnapshot(ids) : ids \in SeqsUpTo(1..MaxArgIds, MaxArgUsers)}

ArgTables ==
  UNION {{[i \in 1..k |-> [id |-> i, members |-> m[i]]] :
             m \in [1..k -> SeqsUpTo(1..MaxArgIds, MaxArgMembers)]} : k \in 0..MaxArgTables}

\* no client is signed in and the store is empty
InitEngine ==
  /\ args \in [users : ArgUsers, settings : SavedSettings, existingTables : ArgTables]
  /\ ret = NoRet
  /\ storeUsers = <<>>
  /\ storeTables = <<>>
  /\ storeSettings = DefaultSettings
  /\ storeProfiles = NoProfiles
  /\ currentUser = [c \in Clients |-> NoUser]
  /\ userProfile = [c \in Clients |-> NoProfile]
  /\ users = [c \in Clients |-> <<>>]
  /\ tables = [c \in Clients |-> <<>>]
  /\ settings = [c \in Clients |-> DefaultSettings]
  /\ myTable = [c \in Clients |-> NoTable]
  /\ view = [c \in Clients |-> "dashboard"]
  /\ loading = [c \in Clients |-> FALSE]
  /\ inflight = [c \in Clients |-> <<>>]
  /\ tablesDue = [c \in Clients |-> FALSE]
  /\ commits = <<>>
  /\ cleanupFailed = [c \in Clients |-> FALSE]
  /\ steps = 0

\* the call returns the result; in round-robin mode the caller's table
\* objects have received the new members
CallAssign ==
  /\ Step
  /\ ret = NoRet
  /\ ret' = [result |-> assignUsersToTables(args.users, args.settings, args.existingTables),
             existingTables |-> ExistingAfterAssign(args.users, args.settings,
                                                    args.existingTables)]
  /\ UNCHANGED <<storeVars, currentUser, userProfile, users, tables, settings, myTable,
                 view, loading, inflight, tablesDue, commits, cleanupFailed, args>>

\* assign is called again with the same users and settings and with the
\* tables the first call returned
CallAssignAgain ==
  /\ Step
  /\ ret # NoRet
  /\ "first" \notin DOMAIN ret
  /\ ret' = [result |-> assignUsersToTables(args.users, args.settings, ret.result),
             existingTables |-> ret.existingTables,
             first |-> ret.result]
  /\ UNCHANGED <<storeVars, currentUser, userProfile, users, tables, settings, myTable,
                 view, loading, inflight, tablesDue, commits, cleanupFailed, args>>

NextEngine == CallAssign \/ CallAssignAgain

SpecEngine == InitEngine /\ [][NextEngine]_vars

(***************************************************************************)
(* Properties.                                                             *)
(***************************************************************************)
TablesOf(u, tbls) == {i \in DOMAIN tbls : u \in Range(tbls[i].members)}

Occurrences(u, tbls) == Len(SelectSeq(AllMembers(tbls), LAMBDA m : m = u))

Kinds == {commits[i].batch.kind : i \in DOMAIN commits}

\* every listener of every client has delivered the store's content and
\* nothing is being written
AllSettled ==
  /\ Quiet
  /\ \A c \in Clients : /\ users[c] = UsersSnapshot(storeUsers)
                        /\ tables[c] = storeTables
                        /\ settings[c] = storeSettings

\* C1: in settled, non-racing executions of assign, move, session exit,
\* shuffle, reassign-all and clear-all, no user id is in the member list of
\* more than one stored table.
C1_NoDoubleSeating ==
  \A u \in UserIds : Cardinality(TablesOf(u, storeTables)) <= 1

\* an assign and a move have committed and several tables are stored
C1_Witness ==
  /\ Kinds = {"assign", "move"}
  /\ Len(storeTables) >= 2
  /\ Quiet

\* C2: in every settled state, also after the admin's settings updates,
\* every stored table has at most the current maxPeoplePerTable members.
C2_WithinCurrentCap ==
  AllSettled =>
    \A i \in DOMAIN storeTables :
      Len(storeTables[i].members) <= storeSettings.maxPeoplePerTable

ExistingWithinCap ==
  \A i \in DOMAIN args.existingTables :
    Len(args.existingTables[i].members) <= args.settings.maxPeoplePerTable

\* C3: when every existing table holds at most maxPeoplePerTable members,
\* every table of assign's output holds at most maxPeoplePerTable members,
\* in round-robin and in location mode.
C3_AssignWithinCap ==
  (ret # NoRet /\ ExistingWithinCap) =>
    \A i \in DOMAIN ret.result :
      Len(ret.result[i].members) <= args.settings.maxPeoplePerTable

\* a full existing table, and users for whom new tables were made
C3_Witness ==
  /\ ret # NoRet /\ ExistingWithinCap
  /\ \E i \in DOMAIN args.existingTables :
        Len(args.existingTables[i].members) = args.settings.maxPeoplePerTable
  /\ Len(ret.result) > Len(args.existingTables) + 1

DistinctArgs ==
  /\ \A i, j \in DOMAIN args.users : args.users[i].id = args.users[j].id => i = j
  /\ \A u \in 1..MaxArgIds : Occurrences(u, args.existingTables) <= 1

\* C4: for users with pairwise distinct ids and existing tables in which no
\* id occurs twice, no id occurs twice in assign's output, in one table or in
\* two, in round-robin and in location mode.
C4_AssignNoDuplicate ==
  (ret # NoRet /\ DistinctArgs) =>
    \A u \in 1..MaxArgIds : Occurrences(u, ret.result) <= 1

\* some of the users were seated already, others were not
C4_Witness ==
  /\ ret # NoRet /\ DistinctArgs
  /\ \E i, j \in DOMAIN args.users :
        /\ args.users[i].id \in MemberIds(args.existingTables)
        /\ args.users[j].id \notin MemberIds(args.existingTables)
  /\ Len(ret.result) > Len(args.existingTables)

TableIdsOf(u, tbls) == {tbls[i].id : i \in TablesOf(u, tbls)}

\* the document of a table id in a collection, <<>> when there is none
Doc(tbls, id) == IF id \in TableIds(tbls) THEN <<TableWithId(tbls, id).members>> ELSE <<>>

\* the latest commit is of one of kinds, computed from the tables the store
\* had when it committed
Unraced(kinds) ==
  /\ commits # <<>>
  /\ commits[1].batch.kind \in kinds
  /\ commits[1].batch.snap = commits[1].before

\* C5: after an assign that commits with no write between its snapshot and
\* its commit, every user seated before is in the same table, and every known
\* user who was unseated is in exactly one stored table.
C5_AssignKeepsAndSeats ==
  Unraced({"assign"}) =>
    LET before == commits[1].before
    IN /\ \A i \in DOMAIN before : \A u \in Range(before[i].members) :
             before[i].id \in TableIdsOf(u, storeTables)
       /\ \A u \in Range(storeUsers) :
             TablesOf(u, before) = {} => Cardinality(TablesOf(u, storeTables)) = 1

\* C6: after an assign, shuffle or reassign-all that commits with no write
\* between its snapshot and its commit, the tables collection consists of
\* exactly the tables of the computed result.
C6_StoreIsResult ==
  Unraced({"assign", "shuffle", "reassign"}) =>
    /\ Range(storeTables) = Range(commits[1].batch.result)
    /\ Len(storeTables) = Len(commits[1].batch.result)

\* two clients' assigns, both computed from the empty tables snapshot, have
\* committed one after the other on the empty collection
RacedAssigns ==
  /\ Len(commits) = 2
  /\ \A i \in 1..2 : commits[i].batch.kind = "assign" /\ commits[i].batch.snap = <<>>
  /\ commits[1].batch.by # commits[2].batch.by
  /\ commits[2].before = <<>>

\* C7: when two clients' assigns from the same empty snapshot both commit,
\* the second deletes nothing: a user whom the first commit seated in a table
\* whose id the second does not write, and whom the second seats in another
\* table, is in two stored tables.
C7_RacedAssignsDoubleSeat ==
  RacedAssigns =>
    \A u \in UserIds :
      (\E a \in TableIdsOf(u, commits[1].before),
          b \in TableIdsOf(u, commits[1].batch.result) :
             a # b /\ a \notin TableIds(commits[1].batch.result))
        => Cardinality(TablesOf(u, storeTables)) >= 2

\* such an execution: the store holds both sets of tables and a user twice
C7_Witness ==
  /\ RacedAssigns
  /\ \E u \in UserIds : Cardinality(TablesOf(u, storeTables)) >= 2

\* two clients' moves of different users into the same table have committed
\* one after the other, both computed from the tables the store had before
\* the first, in which the table had one seat left for both
RacedMoves ==
  /\ Len(commits) = 2
  /\ \A i \in 1..2 : /\ commits[i].batch.kind = "move"
                     /\ commits[i].batch.snap = commits[2].before
                     /\ commits[i].batch.dest = commits[1].batch.dest
                     /\ commits[i].batch.cap = storeSettings.maxPeoplePerTable
  /\ commits[1].batch.user # commits[2].batch.user
  /\ Len(TableWithId(commits[2].before, commits[1].batch.dest).members)
       = storeSettings.maxPeoplePerTable - 1

\* C8 as stated: after two raced moves into a table with one seat left, the
\* stored table holds more than maxPeoplePerTable members.
C8_RacedMovesOverfill ==
  RacedMoves =>
    Len(TableWithId(storeTables, commits[1].batch.dest).members)
      > storeSettings.maxPeoplePerTable

\* C8: two raced moves do not overfill their table.  A committed move leaves
\* in the destination the members of the mover's snapshot and the mover, no
\* more than the maxPeoplePerTable it checked; after two raced moves into a
\* table with one seat left the second commit has replaced what the first
\* wrote, and the first mover is back in the table they left.
C8_RacedMovesLastWins ==
  /\ (commits # <<>> /\ commits[1].batch.kind = "move") =>
        LET b == commits[1].batch
            stored == TableWithId(storeTables, b.dest).members
        IN /\ stored = Append(TableWithId(b.snap, b.dest).members, b.user)
           /\ Len(stored) <= b.cap
  /\ RacedMoves =>
        LET first == commits[2].batch.user
        IN /\ Len(TableWithId(storeTables, commits[1].batch.dest).members)
                <= storeSettings.maxPeoplePerTable
           /\ TableIdsOf(first, storeTables) = TableIdsOf(first, commits[2].before)

\* both moves have committed: the first mover was in the table after the
\* first commit
C8_Witness ==
  /\ RacedMoves
  /\ commits[2].batch.user \in
        Range(TableWithId(commits[1].before, commits[1].batch.dest).members)

\* C9: a committed move changes no table document other than its source and
\* its destination.
C9_MoveWritesTwoDocs ==
  (commits # <<>> /\ commits[1].batch.kind = "move") =>
    LET b == commits[1].batch
        source == MembershipIndex(b.user, b.snap)
    IN \A id \in (TableIds(storeTables) \cup TableIds(commits[1].before))
                   \ {source, b.dest} :
          Doc(storeTables, id) = Doc(commits[1].before, id)

\* C10: in every settled state no stored table has an empty member list.
C10_NoEmptyTable ==
  AllSettled => \A i \in DOMAIN storeTables : Len(storeTables[i].members) > 0

(***************************************************************************)
(* Direct calls of moveUserBetweenTables on tables drawn as for assign, a  *)
(* user id, and source and destination ids of which the largest names no   *)
(* table.                                                                  *)
(***************************************************************************)
\* no client is signed in and the store is empty
Idle ==
  /\ storeUsers = <<>>
  /\ storeTables = <<>>
  /\ storeSettings = DefaultSettings
  /\ storeProfiles = NoProfiles
  /\ currentUser = [c \in Clients |-> NoUser]
  /\ userProfile = [c \in Clients |-> NoProfile]
  /\ users = [c \in Clients |-> <<>>]
  /\ tables = [c \in Clients |-> <<>>]
  /\ settings = [c \in Clients |-> DefaultSettings]
  /\ myTable = [c \in Clients |-> NoTable]
  /\ view = [c \in Clients |-> "dashboard"]
  /\ loading = [c \in Clients |-> FALSE]
  /\ inflight = [c \in Clients |-> <<>>]
  /\ tablesDue = [c \in Clients |-> FALSE]
  /\ commits = <<>>
  /\ cleanupFailed = [c \in Clients |-> FALSE]
  /\ steps = 0

MoveArgs ==
  [tables : ArgTables, userId : 1..MaxArgIds,
   fromTableId : 1..(MaxArgTables + 1), toTableId : 1..(MaxArgTables + 1),
   maxPeoplePerTable : CapChoices]

InitMove ==
  /\ args \in MoveArgs
  /\ ret = NoRet
  /\ Idle

\* the call returns [success, tables, message]; input is the caller's tables
\* after the call
CallMove ==
  /\ Step
  /\ ret = NoRet
  /\ LET result == moveUserBetweenTables(args.tables, args.userId, args.fromTableId,
                                         args.toTableId, args.maxPeoplePerTable)
     IN ret' = [result |-> result, input |-> InputAfterMove(args.tables, result),
                writes |-> ChangeTableWrites(result)]
  /\ UNCHANGED <<storeVars, currentUser, userProfile, users, tables, settings, myTable,
                 view, loading, inflight, tablesDue, commits, cleanupFailed, args>>

NextMove == CallMove

\* CallMove keeps, with the result of the move, the caller's tables after the
\* call and the writes handleChangeTable makes of that result
SpecMove == InitMove /\ [][NextMove]_vars

\* the positions of the source and the destination in the tables passed to
\* move, 0 when there is no such table
SrcIdx == FirstIndex(args.tables, LAMBDA t : t.id = args.fromTableId)
DstIdx == FirstIndex(args.tables, LAMBDA t : t.id = args.toTableId)

TablesMissing == SrcIdx = 0 \/ DstIdx = 0
DestinationFull == Len(args.tables[DstIdx].members) >= args.maxPeoplePerTable
UserAbsent == args.userId \notin Range(args.tables[SrcIdx].members)

\* C11: a successful move takes the user's first entry out of A and appends
\* it to B; the list keeps its tables, ids and order, A included when emptied,
\* every other table and member is as before and the member count is the same.
C11_MoveCorrect ==
  (ret # NoRet /\ ~TablesMissing /\ ~DestinationFull /\ ~UserAbsent) =>
    LET in == args.tables
        out == ret.result.tables
        k == FirstIndex(in[SrcIdx].members, LAMBDA m : m = args.userId)
    IN /\ ret.result.success
       /\ Len(out) = Len(in)
       /\ \A i \in DOMAIN in : out[i].id = in[i].id
       /\ \A i \in DOMAIN in \ {SrcIdx, DstIdx} : out[i] = in[i]
       /\ IF SrcIdx = DstIdx
          THEN out[SrcIdx].members = Append(RemoveAt(in[SrcIdx].members, k), args.userId)
          ELSE /\ out[SrcIdx].members = RemoveAt(in[SrcIdx].members, k)
               /\ out[DstIdx].members = Append(in[DstIdx].members, args.userId)
       /\ Len(AllMembers(out)) = Len(AllMembers(in))

\* a move that emptied its source
C11_Witness ==
  /\ ret # NoRet /\ ret.result.success
  /\ SrcIdx # DstIdx
  /\ ret.result.tables[SrcIdx].members = <<>>
  /\ Len(ret.result.tables[DstIdx].members) > 1

\* C12: move reports the first failure that applies: a missing table, then a
\* full destination, then a user absent from the source.
C12_MoveFailureOrder ==
  ret # NoRet =>
    LET r == ret.result
    IN IF TablesMissing THEN ~r.success /\ r.message = "Table not found"
       ELSE IF DestinationFull
       THEN ~r.success /\ r.message = "Destination table is full"
       ELSE IF UserAbsent
       THEN ~r.success /\ r.message = "User not found in source table"
       ELSE r.success

\* a full destination reported although the user is not in the source
C12_Witness ==
  /\ ret # NoRet /\ ~TablesMissing
  /\ DestinationFull /\ UserAbsent
  /\ ret.result.message = "Destination table is full"

C14_AssignLeavesArgs ==
  ret # NoRet => ret.existingTables = args.existingTables

\* C15: assign called again with the tables it returned, the same users and
\* the same settings returns those tables unchanged.
C15_AssignTwiceSame ==
  (ret # NoRet /\ "first" \in DOMAIN ret) => ret.result = ret.first

\* the first call seated users in an existing table and in a new one
C15_Witness ==
  /\ ret # NoRet /\ "first" \in DOMAIN ret
  /\ Len(ret.first) > Len(args.existingTables)
  /\ args.existingTables # <<>>
  /\ Len(AllMembers(ret.first)) > Len(AllMembers(args.existingTables)) + 1

(***************************************************************************)
(* Direct calls of shuffleTables on up to MaxArgTables tables with any of  *)
(* the ids 1..MaxArgTables and up to MaxShuffleMembers members each, a     *)
(* table size from 1 on, and every sequence of draws of Math.random.       *)
(***************************************************************************)
ShuffleArgTables ==
  SeqsUpTo([id : 1..MaxArgTables, members : SeqsUpTo(1..MaxArgIds, MaxShuffleMembers)],
           MaxArgTables)

InitShuffle ==
  /\ \E tbls \in ShuffleArgTables, cap \in 1..MaxCapChoice :
        \E js \in SwapChoices(Len(AllMembers(tbls))) :
           args = [tables |-> tbls, maxPeoplePerTable |-> cap, js |-> js]
  /\ ret = NoRet
  /\ Idle

CallShuffle ==
  /\ Step
  /\ ret = NoRet
  /\ ret' = [result |-> shuffleTables(args.tables, args.maxPeoplePerTable, args.js)]
  /\ UNCHANGED <<storeVars, currentUser, userProfile, users, tables, settings, myTable,
                 view, loading, inflight, tablesDue, commits, cleanupFailed, args>>

NextShuffle == CallShuffle

SpecShuffle == InitShuffle /\ [][NextShuffle]_vars

\* how many times id m occurs in the list s
Count(s, m) == Cardinality({i \in DOMAIN s : s[i] = m})

\* C16: the member ids of shuffle's output are those of its input, each as
\* many times, whatever the swaps.
C16_ShufflePermutes ==
  ret # NoRet =>
    /\ \A m \in 1..MaxArgIds :
          Count(AllMembers(ret.result), m) = Count(AllMembers(args.tables), m)
    /\ Len(AllMembers(ret.result)) = Len(AllMembers(args.tables))

\* members of two tables changed places and were cut into other tables
C16_Witness ==
  /\ ret # NoRet
  /\ Len(args.tables) = 2
  /\ AllMembers(ret.result) # AllMembers(args.tables)
  /\ Len(ret.result) # Len(args.tables)
  /\ \E m \in 1..MaxArgIds : Count(AllMembers(args.tables), m) = 2

\* C17: for n members and table size cap, shuffle returns ceil(n / cap)
\* tables with the ids 1..k in order, all of cap members but the last, which
\* has from 1 to cap; none when n = 0.
C17_ShuffleChunks ==
  ret # NoRet =>
    LET n == Len(AllMembers(args.tables))
        cap == args.maxPeoplePerTable
        out == ret.result
        k == (n + cap - 1) \div cap
    IN /\ Len(out) = k
       /\ \A i \in 1..k : out[i].id = i
       /\ \A i \in 1..(k - 1) : Len(out[i].members) = cap
       /\ k > 0 => Len(out[k].members) = n - (k - 1) * cap
       /\ k > 0 => Len(out[k].members) \in 1..cap

\* a last table that is not full, from input tables with other ids
C17_Witness ==
  /\ ret # NoRet
  /\ Len(ret.result) = 2
  /\ Len(ret.result[2].members) < args.maxPeoplePerTable
  /\ \A i \in DOMAIN args.tables : args.tables[i].id = 2

\* the tables without user u in the first table that has u: that table is
\* gone if u was alone in it and keeps its other members in their order
\* otherwise; every other table is as it was
RECURSIVE DepartedFrom(_, _)
DepartedFrom(tbls, u) ==
  IF tbls = <<>> THEN <<>>
  ELSE LET t == Head(tbls)
           rest == SelectIds(t.members, {u})
       IN IF u \notin Range(t.members) THEN <<t>> \o DepartedFrom(Tail(tbls), u)
          ELSE IF rest = <<>> THEN Tail(tbls)
          ELSE <<[id |-> t.id, members |-> rest]>> \o Tail(tbls)

\* the latest commit is the cleanup of a departure that found the user's table
DepartureCommitted ==
  /\ Unraced({"exit"})
  /\ commits[1].batch.writes # <<>>

\* C18 as stated: a departure that finds the user's table in the snapshot,
\* and commits with no write in between, takes exactly that user out of the
\* table (deleting it if nobody else was in it, keeping the other members in
\* order otherwise), and the user is then in no stored table.
C18_DepartureUnseats ==
  DepartureCommitted =>
    LET u == commits[1].batch.user
    IN /\ storeTables = DepartedFrom(commits[1].before, u)
       /\ TableIdsOf(u, storeTables) = {}

\* C18: such a departure takes exactly that user out of the first table that
\* has them and leaves every other table as it was; the user is then in no
\* stored table if they were seated in one table only.
C18_DepartureLeavesFoundTable ==
  DepartureCommitted =>
    LET u == commits[1].batch.user
    IN /\ storeTables = DepartedFrom(commits[1].before, u)
       /\ Cardinality(TableIdsOf(u, commits[1].before)) = 1
            => TableIdsOf(u, storeTables) = {}

\* two users, each seated once, have left: the first from a table that others
\* stay in, the second as the last member of a table, which is gone
C18_Witness ==
  /\ DepartureCommitted
  /\ Len(commits) = 2
  /\ commits[2].batch.kind = "exit" /\ commits[2].batch.writes # <<>>
  /\ commits[2].batch.snap = commits[2].before
  /\ \A k \in 1..2 :
        Cardinality(TableIdsOf(commits[k].batch.user, commits[k].before)) = 1
  /\ Len(commits[2].before) = Len(commits[1].before)
  /\ Len(storeTables) < Len(commits[1].before)
  /\ \A k \in 1..2 : TableIdsOf(commits[k].batch.user, storeTables) = {}

\* C19: a departure is not held up by its cleanup: whenever the table write
\* of a logout settles, committed or rejected, that client is signed out by
\* the same step; and a client whose cleanup was rejected is signed out.
C19_CleanupNeverBlocks ==
  [][\A c \in Clients :
        (/\ inflight[c] # <<>>
         /\ Head(inflight[c]).kind = "exit"
         /\ Len(inflight'[c]) < Len(inflight[c]))
          => /\ currentUser'[c] = NoUser
             /\ ~LoggingOut(c)'
             /\ cleanupFailed'[c] => storeTables' = storeTables]_vars

\* a logout whose table write was rejected: the user is signed out and still
\* a member of their table in the store
C19_Witness ==
  \E c \in Clients :
    /\ cleanupFailed[c]
    /\ currentUser[c] = NoUser
    /\ commits = <<>>
    /\ TableIdsOf(InitialAccount(c), storeTables) # {}

\* the operations of the admin panel
AdminKinds == {"settings", "shuffle", "reassign", "clear"}

\* the batches that are waiting at the store or were committed last
Submitted ==
  {commits[i].batch : i \in DOMAIN commits}
    \cup UNION {Range(inflight[c]) : c \in Clients}

\* C20: every settings update, shuffle, reassign-all and clear-all that a
\* step hands to the store or commits was invoked by a user whose role is
\* admin or super-admin, and a step changes the settings document only by
\* committing such a settings update.
C20_AdminOnly ==
  [][/\ \A b \in Submitted' :
           b.kind \in AdminKinds => RoleOf(b.user) \in {"admin", "super-admin"}
     /\ storeSettings' # storeSettings
          => /\ commits'[1].batch.kind = "settings"
             /\ commits'[1].before = storeTables
             /\ RoleOf(commits'[1].batch.user) \in {"admin", "super-admin"}]_vars

\* an admin has changed the settings and cleared the tables while a user who
\* is no admin is signed in on the other client
C20_Witness ==
  /\ Len(commits) = 2
  /\ \A i \in 1..2 : commits[i].batch.kind \in AdminKinds
  /\ commits[1].batch.kind # commits[2].batch.kind
  /\ storeSettings # InitialSettings
  /\ \E c \in Clients :
        currentUser[c] # NoUser /\ RoleOf(currentUser[c]) \notin {"admin", "super-admin"}

\* the batches of a reset that deletes user documents
DeletesUsers(b) == \E i \in DOMAIN b.writes : b.writes[i].coll = "users"

\* C21: user documents are deleted only by a super-admin: every batch that
\* deletes user documents was invoked by a user whose role is super-admin,
\* and no registered user is missing from the store otherwise.
C21_OnlySuperAdminDeletesUsers ==
  /\ \A i \in DOMAIN commits :
        DeletesUsers(commits[i].batch) => RoleOf(commits[i].batch.user) = "super-admin"
  /\ Len(storeUsers) < NumUsers => \E i \in DOMAIN commits : DeletesUsers(commits[i].batch)

\* the mutation handlers that set their component's loading flag
MutationKinds == {"assign", "move", "shuffle", "reassign", "clear", "settings"}

\* the batches of the mutation handlers of client c that have not settled
Pending(c) == {i \in DOMAIN inflight[c] : inflight[c][i].kind \in MutationKinds}

\* C22: a client has at most one mutation in flight: no mutation handler
\* starts between the start of another one of the same client and the moment
\* its batch settles.
C22_OneInFlight == \A c \in Clients : Cardinality(Pending(c)) <= 1

(***************************************************************************)
(* getTableDistributionStats.  A JavaScript number is either NaN or, here, *)
(* an integer; dividing zero by zero and the remainder by zero give NaN,   *)
(* and NaN spreads through floor and subtraction.                          *)
(***************************************************************************)
Num(v) == [nan |-> FALSE, v |-> v]
NaN == [nan |-> TRUE, v |-> 0]

\* Math.ceil(a / b) for a >= 0 and b >= 1
CeilDiv(a, b) == (a + b - 1) \div b

\* Math.floor(a / b) for a >= 0 and b >= 0, where a = 0 whenever b = 0
FloorDiv(a, b) == IF b = 0 THEN NaN ELSE Num(a \div b)

\* a % b for a >= 0 and b >= 0
Remainder(a, b) == IF b = 0 THEN NaN ELSE Num(a % b)

\* a - b for a number a and a result b
Minus(a, b) == IF b.nan THEN NaN ELSE Num(a - b.v)

\* a faulty count of tables: the last, partly filled table is left out
StatsFloorTables(totalUsers, maxPeoplePerTable) ==
  LET minTables == IF totalUsers < maxPeoplePerTable THEN 1
                   ELSE totalUsers \div maxPeoplePerTable
      tablesWithExtra == Remainder(totalUsers, minTables)
  IN [totalTables |-> Num(minTables),
      averagePeoplePerTable |-> FloorDiv(totalUsers, minTables),
      tablesWithExtraPerson |-> tablesWithExtra,
      tablesWithNormalCount |-> Minus(minTables, tablesWithExtra)]

getTableDistributionStats(totalUsers, maxPeoplePerTable) ==
  LET minTables == CeilDiv(totalUsers, maxPeoplePerTable)
      perfectDistribution == FloorDiv(totalUsers, minTables)
      tablesWithExtra == Remainder(totalUsers, minTables)
  IN [totalTables |-> Num(minTables),
      averagePeoplePerTable |-> perfectDistribution,
      tablesWithExtraPerson |-> tablesWithExtra,
      tablesWithNormalCount |-> Minus(minTables, tablesWithExtra)]

\* direct calls with up to MaxStatUsers users and a table size of 1 to
\* MaxStatCap
InitStats ==
  /\ \E n \in 0..MaxStatUsers, cap \in 1..MaxStatCap :
        args = [totalUsers |-> n, maxPeoplePerTable |-> cap]
  /\ ret = NoRet
  /\ Idle

CallStats ==
  /\ Step
  /\ ret = NoRet
  /\ ret' = [stats |-> getTableDistributionStats(args.totalUsers, args.maxPeoplePerTable)]
  /\ UNCHANGED <<storeVars, currentUser, userProfile, users, tables, settings, myTable,
                 view, loading, inflight, tablesDue, commits, cleanupFailed, args>>

NextStats == CallStats

SpecStats == InitStats /\ [][NextStats]_vars

\* every field of the stats is a number
WellDefined(stats) ==
  /\ ~stats.totalTables.nan
  /\ ~stats.averagePeoplePerTable.nan
  /\ ~stats.tablesWithExtraPerson.nan
  /\ ~stats.tablesWithNormalCount.nan

\* C23: for one user or more and a table size of 1 or more, the stats are
\* numbers with totalTables = ceil(totalUsers / maxPeoplePerTable), the normal
\* and the extra tables add up to totalTables, and normal * average + extra *
\* (average + 1) = totalUsers.
C23_StatsConsistent ==
  (ret # NoRet /\ args.totalUsers >= 1) =>
    LET st == ret.stats
        n == args.totalUsers
        cap == args.maxPeoplePerTable
    IN /\ WellDefined(st)
       /\ st.totalTables.v * cap >= n /\ (st.totalTables.v - 1) * cap < n
       /\ st.tablesWithNormalCount.v + st.tablesWithExtraPerson.v = st.totalTables.v
       /\ st.tablesWithNormalCount.v * st.averagePeoplePerTable.v
            + st.tablesWithExtraPerson.v * (st.averagePeoplePerTable.v + 1) = n

\* 7 users at tables of 5: two tables, one of 3 and one of 4
C23_Witness ==
  /\ ret # NoRet
  /\ args = [totalUsers |-> 7, maxPeoplePerTable |-> 5]
  /\ ret.stats = [totalTables |-> Num(2), averagePeoplePerTable |-> Num(3),
                  tablesWithExtraPerson |-> Num(1), tablesWithNormalCount |-> Num(1)]

\* C24: for no users the stats report no tables and every field is a number.
C24_StatsZeroUsers ==
  (ret # NoRet /\ args.totalUsers = 0) =>
    /\ ret.stats.totalTables = Num(0)
    /\ WellDefined(ret.stats)

(***************************************************************************)
(* Direct calls of assignUsersToTables on user records of which any may    *)
(* lack its id, with at most one existing table.                           *)
(***************************************************************************)
AnyUsers == {UsersSnapshot(ids) : ids \in SeqsUpTo({MissingId} \cup 1..MaxArgIds, MaxArgUsers)}

InitAnyUsers ==
  /\ args \in [users : AnyUsers, settings : SavedSettings,
               existingTables : {t \in ArgTables : Len(t) <= 1}]
  /\ ret = NoRet
  /\ Idle

NextAnyUsers == CallAssign

SpecAnyUsers == InitAnyUsers /\ [][NextAnyUsers]_vars

\* C25: assign seats no user record that lacks its id, and seats every other
\* user of its input.
C25_AssignSkipsMissingId ==
  ret # NoRet =>
    /\ MissingId \notin MemberIds(ret.result)
    /\ \A i \in DOMAIN args.users :
          args.users[i].id # MissingId => args.users[i].id \in MemberIds(ret.result)

\* C26: a move that fails validation returns its failure as a result with
\* one of the three messages, and handleChangeTable writes nothing for it: a
\* store holding the caller's tables is unchanged.
C26_FailedMoveWritesNothing ==
  (ret # NoRet /\ ~ret.result.success) =>
    /\ ret.result.message \in {"Table not found", "Destination table is full",
                               "User not found in source table"}
    /\ ret.writes = <<>>
    /\ TablesAfter(args.tables, ret.writes) = args.tables

\* a move to a full table by a member of the source: nothing is written
C26_Witness ==
  /\ ret # NoRet /\ ~ret.result.success
  /\ ret.result.message = "Destination table is full"
  /\ ret.writes = <<>>
  /\ Len(args.tables) = 2
  /\ args.userId \in Range(args.tables[SrcIdx].members)

\* C27: after a reassign-all that commits with no write between its snapshot
\* and its commit, every user it seated (every user of the admin's users copy
\* that has an id) is a member of exactly one stored table.
C27_ReassignSeatsAll ==
  Unraced({"reassign"}) =>
    \A u \in MemberIds(commits[1].batch.result) :
       Cardinality(TablesOf(u, storeTables)) = 1

(***************************************************************************)
(* Round-robin assignment from no tables: direct calls of                  *)
(* assignUsersToTables with the users 1..n, n up to MaxFillUsers, a table  *)
(* size of MinCap to MaxFillCap and no existing tables.                    *)
(***************************************************************************)
InitFill ==
  /\ \E n \in 0..MaxFillUsers, cap \in MinCap..MaxFillCap :
        args = [users |-> UsersSnapshot([i \in 1..n |-> i]),
                settings |-> [maxPeoplePerTable |-> cap, considerLocation |-> FALSE],
                existingTables |-> <<>>]
  /\ ret = NoRet
  /\ Idle

NextFill == CallAssign

SpecFill == InitFill /\ [][NextFill]_vars

\* C28: round-robin assignment from no tables is even: the member counts of
\* any two tables of the result differ by at most one.
C28_EvenTables ==
  ret # NoRet =>
    \A i, j \in DOMAIN ret.result :
       Len(ret.result[i].members) - Len(ret.result[j].members) <= 1

(***************************************************************************)
(* First access: the settings document does not exist yet.  The admin is   *)
(* signed in on the first client, another user on each other client; the   *)
(* settings listeners deliver, the admin saves settings, writes settle.    *)
(***************************************************************************)
InitFirstAccess ==
  /\ storeUsers = Registered
  /\ storeTables = <<>>
  /\ storeSettings = NoSettings
  /\ currentUser = [c \in Clients |-> IF c = 1 THEN 1 ELSE InitialAccount(c)]
  /\ users = [c \in Clients |-> UsersSnapshot(storeUsers)]
  /\ tables = [c \in Clients |-> <<>>]
  /\ settings = [c \in Clients |-> DefaultSettings]
  /\ myTable = [c \in Clients |-> NoTable]
  /\ tablesDue = [c \in Clients |-> FALSE]
  /\ Loaded

NextFirstAccess ==
  \/ \E c \in Clients : NotifySettings(c)
  \/ \E c \in Clients, v \in {"dashboard", "admin"} : Navigate(c, v)
  \/ \E c \in Clients, cap \in CapChoices, loc \in BOOLEAN : handleSaveSettings(c, cap, loc)
  \/ \E c \in Clients : Commit(c)
  \/ \E c \in Clients : Fail(c)

SpecFirstAccess == InitFirstAccess /\ [][NextFirstAccess]_vars

\* C29: the settings document is created as {5, false}, and once an admin's
\* update has committed the settings change only by another admin's update:
\* no step changes settings that the latest commit, an admin's update, wrote,
\* other than the commit of a settings update.
C29_AdminSettingsKept ==
  [][/\ (storeSettings = NoSettings /\ storeSettings' # NoSettings /\ commits = <<>>)
          => (storeSettings' = DefaultSettings \/ commits'[1].batch.kind = "settings")
     /\ (/\ commits # <<>>
         /\ commits[1].batch.kind = "settings"
         /\ storeSettings' # storeSettings)
          => commits'[1].batch.kind = "settings"]_vars

\* the tables of the working list with a free seat
Open(result, cap) == {k \in DOMAIN result : Len(result[k].members) < cap}

\* the earliest of the tables with the fewest members among those with a free
\* seat; 0 when there is none
FewestOpen(result, cap) ==
  LET open == Open(result, cap)
      least == {k \in open : \A j \in open :
                   Len(result[k].members) <= Len(result[j].members)}
  IN IF least = {} THEN 0 ELSE CHOOSE k \in least : \A j \in least : k <= j

\* the working list after the users us have been placed one by one
RECURSIVE Filled(_, _, _)
Filled(result, us, cap) ==
  IF us = <<>> THEN result
  ELSE LET k == FewestOpen(result, cap)
           next == IF k = 0
                   THEN Append(result, [id |-> Len(result) + 1,
                                        members |-> <<Head(us).id>>])
                   ELSE [result EXCEPT ![k].members = Append(@, Head(us).id)]
       IN Filled(next, Tail(us), cap)

\* C30: in round-robin mode each unassigned user, in input order, joins the
\* earliest of the tables that have the fewest members among those with a
\* free seat, and a new table, named by its position, is appended only when
\* no table has a free seat.
C30_RoundRobinFill ==
  (ret # NoRet /\ ~args.settings.considerLocation /\ "first" \notin DOMAIN ret) =>
    ret.result = Filled(args.existingTables,
                        Unassigned(args.users, MemberIds(args.existingTables)),
                        args.settings.maxPeoplePerTable)

\* two users were placed: the first into the second table, which had fewer
\* members than the first, the next into a new table as both were full
C30_Witness ==
  /\ ret # NoRet /\ ~args.settings.considerLocation /\ "first" \notin DOMAIN ret
  /\ Len(args.existingTables) = 2
  /\ Len(args.existingTables[1].members) = 2
  /\ Len(args.existingTables[2].members) = 1
  /\ args.settings.maxPeoplePerTable = 2
  /\ Len(ret.result) = 3
  /\ Len(ret.result[2].members) = 2
  /\ ret.result[3].id = 3

\* the location bucket of the user with id u
KeyOf(u) == locationKey(UserRecord(u))

\* C31: in location mode assign returns the existing tables first, with their
\* member lists as they were, followed by fresh tables; no fresh table seats
\* users of two location buckets, and the fresh tables of each bucket are the
\* round-robin fill of that bucket's unassigned users from no tables.
C31_LocationFreshTables ==
  (ret # NoRet /\ args.settings.considerLocation /\ "first" \notin DOMAIN ret) =>
    LET old == args.existingTables
        cap == args.settings.maxPeoplePerTable
        todo == Unassigned(args.users, MemberIds(old))
        fresh == SubSeq(ret.result, Len(old) + 1, Len(ret.result))
    IN /\ Len(ret.result) >= Len(old)
       /\ SubSeq(ret.result, 1, Len(old)) = old
       /\ \A i \in DOMAIN fresh :
             /\ fresh[i].members # <<>>
             /\ \A m, n \in Range(fresh[i].members) : KeyOf(m) = KeyOf(n)
       /\ \A u \in 1..MaxArgIds :
             SelectSeq(fresh, LAMBDA t : KeyOf(t.members[1]) = KeyOf(u))
               = Filled(<<>>, SelectSeq(todo, LAMBDA x : KeyOf(x.id) = KeyOf(u)), cap)

\* users of two buckets were assigned while an existing table had a free seat:
\* the table is as before and each bucket has a fresh table
C31_Witness ==
  /\ ret # NoRet /\ args.settings.considerLocation /\ "first" \notin DOMAIN ret
  /\ Len(args.existingTables) = 1
  /\ Len(args.existingTables[1].members) < args.settings.maxPeoplePerTable
  /\ Len(ret.result) = 3
  /\ KeyOf(ret.result[2].members[1]) # KeyOf(ret.result[3].members[1])

\* C32: round-robin assignment of n users with distinct ids from no tables
\* returns ceil(n / maxPeoplePerTable) tables, the totalTables of the stats
\* for n users.
C32_TableCount ==
  ret # NoRet =>
    LET n == Len(args.users)
        cap == args.settings.maxPeoplePerTable
    IN /\ Len(ret.result) = CeilDiv(n, cap)
       /\ Num(Len(ret.result)) = getTableDistributionStats(n, cap).totalTables

\* three users at tables of two: a table of 2 and a table of 1
C32_Witness ==
  /\ ret # NoRet
  /\ Len(args.users) = 3
  /\ args.settings.maxPeoplePerTable = 2
  /\ ret.result = <<[id |-> 1, members |-> <<1, 2>>], [id |-> 2, members |-> <<3>>]>>

\* the positions of the tables of tbls that have u among their members
Seats(u, tbls) == {i \in DOMAIN tbls : \E k \in DOMAIN tbls[i].members : tbls[i].members[k] = u}

\* C33: by a tables notification the client's copy becomes the store's
\* content and, on the dashboard, myTable becomes the first table of that
\* copy that has the current user, or unset when none has; no table that the
\* copy lacks is kept.
C33_IndexFollowsSnapshot ==
  [][\A c \in Clients :
        (tablesDue[c] /\ ~tablesDue'[c]) =>
          /\ tables'[c] = storeTables
          /\ DashboardMounted(c) =>
               LET seats == Seats(currentUser[c], tables'[c])
               IN IF seats = {} THEN myTable'[c] = NoTable
                  ELSE \E i \in seats : /\ \A j \in seats : i <= j
                                        /\ myTable'[c] = tables'[c][i].id]_vars

\* a client whose user was seated has been notified of the tables after an
\* admin on another client removed them all: its myTable is unset
C33_Witness ==
  \E c \in Clients :
    /\ DashboardMounted(c)
    /\ commits # <<>>
    /\ commits[1].batch.kind \in {"clear", "reset"}
    /\ commits[1].batch.by # c
    /\ TableIdsOf(currentUser[c], commits[1].before) # {}
    /\ ~tablesDue[c]
    /\ tables[c] = <<>> /\ storeTables = <<>>
    /\ myTable[c] = NoTable

\* the batches of client c handed to the store by a handler of the mounted
\* component
LivePending(c) ==
  {i \in DOMAIN inflight[c] : inflight[c][i].live /\ inflight[c][i].kind \notin {"exit", "init"}}

\* C34: a handler releases its loading flag when its store operation settles,
\* committed or rejected: the step that settles the batch of a handler of the
\* mounted component leaves loading false, and loading is set only while such
\* a batch is in flight.
C34_LoadingReleased ==
  [][\A c \in Clients :
        /\ (/\ inflight[c] # <<>>
            /\ Head(inflight[c]).kind \in MutationKinds
            /\ Head(inflight[c]).live
            /\ Len(inflight'[c]) < Len(inflight[c])) => ~loading'[c]
        /\ loading'[c] => LivePending(c)' # {}]_vars

\* a move has committed: its client's loading flag is released and the
\* buttons of its dashboard are enabled again
C34_Witness ==
  \E c \in Clients :
    /\ commits # <<>>
    /\ commits[1].batch.kind = "move" /\ commits[1].batch.by = c
    /\ commits[1].batch.live
    /\ inflight[c] = <<>>
    /\ DashboardMounted(c) /\ CanStart(c)

(***************************************************************************)
(* Profiles and roles.  An event whose organiser (user 2) holds the        *)
(* super-admin role and whose users are seated; the clients edit their     *)
(* profiles, call setAdminRole, the super-admin promotes and demotes, and  *)
(* users sign out and in.  A profile write and its settlement are one      *)
(* step.                                                                   *)
(***************************************************************************)
MaxName == 2
MaxProfileSteps == 5
NameChoices == 1..MaxName
Roles == {"", "admin", "super-admin"}

\* the users collection once u's document has the newest lastUpdated
Touched(ids, u) == <<u>> \o SelectIds(ids, {u})

\* updateUserProfile's updatedProfile: the client's profile under the given
\* fields
updatedProfile(c, profileData) ==
  [userProfile[c] EXCEPT
     !.displayName = IF "displayName" \in DOMAIN profileData
                     THEN profileData.displayName ELSE @,
     !.role = IF "role" \in DOMAIN profileData THEN profileData.role ELSE @]

ProfileBatch(kind, c) ==
  Batch(kind, c, <<>>, tables[c], <<>>, NoTable, settings[c].maxPeoplePerTable)

\* a faulty profile update: it also takes the user out of their table
updateUserProfileUnseating(c, profileData) ==
  /\ currentUser[c] # NoUser
  /\ LET u == currentUser[c]
         p == updatedProfile(c, profileData)
     IN /\ storeProfiles' = [storeProfiles EXCEPT
                               ![u] = [role |-> p.role, displayName |-> p.displayName]]
        /\ storeUsers' = Touched(storeUsers, u)
        /\ userProfile' = [userProfile EXCEPT ![c] = p]
        /\ storeTables' = TablesAfter(storeTables, ExitWrites(u, storeTables))
  /\ commits' = Record(ProfileBatch("profile", c))
  /\ UNCHANGED storeSettings

\* AuthContext.updateUserProfile: the whole profile the client holds, under
\* the given fields, is merged into the user's document
updateUserProfile(c, profileData) ==
  /\ currentUser[c] # NoUser
  /\ LET u == currentUser[c]
         p == updatedProfile(c, profileData)
     IN /\ storeProfiles' = [storeProfiles EXCEPT
                               ![u] = [role |-> p.role, displayName |-> p.displayName]]
        /\ storeUsers' = Touched(storeUsers, u)
        /\ userProfile' = [userProfile EXCEPT ![c] = p]
  /\ commits' = Record(ProfileBatch("profile", c))
  /\ UNCHANGED <<storeTables, storeSettings>>

\* UserProfile.handleSubmit with the form's name
handleSubmit(c, name) ==
  /\ Step
  /\ ProfileMounted(c)
  /\ updateUserProfile(c, [displayName |-> name])
  /\ UNCHANGED <<currentUser, users, tables, settings, myTable, view, loading, inflight,
                 tablesDue, cleanupFailed, args, ret>>

\* AuthContext.setAdminRole, which the context hands to every component
setAdminRole(c, role) ==
  /\ Step
  /\ currentUser[c] # NoUser
  /\ updateUserProfile(c, [role |-> role])
  /\ UNCHANGED <<currentUser, users, tables, settings, myTable, view, loading, inflight,
                 tablesDue, cleanupFailed, args, ret>>

\* AdminPanel.handleSetUserRole from the Make Admin or Demote button of a
\* listed user
handleSetUserRole(c, userId) ==
  /\ Step
  /\ AdminMounted(c) /\ isSuperAdmin(c) /\ CanStart(c)
  /\ \E i \in DOMAIN users[c] : users[c][i].id = userId
  /\ storeProfiles[userId].role # "super-admin"
  /\ userId \in Range(storeUsers)
  /\ storeProfiles' = [storeProfiles EXCEPT
        ![userId].role = IF @ = "admin" THEN "" ELSE "admin"]
  /\ storeUsers' = Touched(storeUsers, userId)
  /\ commits' = Record(ProfileBatch("role", c))
  /\ UNCHANGED <<storeTables, storeSettings, currentUser, userProfile, users, tables,
                 settings, myTable, view, loading, inflight, tablesDue, cleanupFailed,
                 args, ret>>

EventProfiles ==
  [u \in UserIds |-> [role |-> IF u = 2 THEN "super-admin" ELSE RoleOf(u),
                      displayName |-> 0]]

InitProfile ==
  /\ storeUsers = Registered
  /\ storeSettings = InitialSettings
  /\ storeTables = Seating(MinCap)
  /\ storeProfiles = EventProfiles
  /\ currentUser \in {f \in [Clients -> UserIds] : \A c \in Clients : f[c] \in InitialAccounts(c)}
  /\ userProfile = [c \in Clients |->
        ProfileOf(Location(currentUser[c]), storeProfiles[currentUser[c]])]
  /\ users = [c \in Clients |-> UsersSnapshot(storeUsers)]
  /\ tables = [c \in Clients |-> storeTables]
  /\ settings = [c \in Clients |-> storeSettings]
  /\ myTable = [c \in Clients |-> MembershipIndex(currentUser[c], storeTables)]
  /\ tablesDue = [c \in Clients |-> FALSE]
  /\ view = [c \in Clients |-> "dashboard"]
  /\ loading = [c \in Clients |-> FALSE]
  /\ inflight = [c \in Clients |-> <<>>]
  /\ commits = <<>>
  /\ cleanupFailed = [c \in Clients |-> FALSE]
  /\ steps = 0
  /\ args = NoArgs
  /\ ret = NoRet

\* the executions of this section are MaxProfileSteps steps long
Brief == steps < MaxProfileSteps

NextProfile ==
  \/ \E c \in Clients, u \in UserIds : Brief /\ u \in Accounts(c) /\ SignIn(c, u)
  \/ \E c \in Clients : Brief /\ NotifyUsers(c)
  \/ \E c \in Clients, v \in {"dashboard", "admin", "profile"} : Brief /\ Navigate(c, v)
  \/ \E c \in Clients, name \in NameChoices : Brief /\ handleSubmit(c, name)
  \/ \E c \in Clients, role \in Roles : Brief /\ setAdminRole(c, role)
  \/ \E c \in Clients, userId \in UserIds : Brief /\ handleSetUserRole(c, userId)
  \/ \E c \in Clients : Brief /\ logout(c)
  \/ \E c \in Clients : Brief /\ Commit(c)

SpecProfile == InitProfile /\ [][NextProfile]_vars

\* the latest write is client c's profile update
ProfileUpdated(c) ==
  /\ commits # <<>>
  /\ commits[1].batch.kind = "profile" /\ commits[1].batch.by = c

\* C35: a profile update writes only the user's own document: the step in
\* which a client's profile update settles leaves every table document, the
\* settings document and every other user's document as they were, so the
\* user keeps the seat they had.
C35_ProfileUpdateWritesOwnDocument ==
  [][\A c \in Clients :
        (ProfileUpdated(c)' /\ commits' # commits) =>
          /\ storeTables' = storeTables
          /\ storeSettings' = storeSettings
          /\ \A u \in UserIds \ {currentUser[c]} : storeProfiles'[u] = storeProfiles[u]
          /\ Range(storeUsers') = Range(storeUsers) \cup {currentUser[c]}
          /\ Seats(currentUser[c], storeTables') = Seats(currentUser[c], storeTables)]_vars

\* a seated user has just saved a new name: their document has it, and they
\* are still seated
C35_Witness ==
  \E c \in Clients :
    /\ ProfileUpdated(c)
    /\ currentUser[c] # NoUser
    /\ storeProfiles[currentUser[c]].displayName \in NameChoices
    /\ \E i \in DOMAIN storeTables : currentUser[c] \in Range(storeTables[i].members)

\* the privileges of a role
Rank(role) == CASE role = "super-admin" -> 2 [] role = "admin" -> 1 [] OTHER -> 0

\* C39: a user's role is raised only by a super-admin: in every step in
\* which the role of some user document becomes a higher one, the client
\* that made the write holds the super-admin role, so no other client raises
\* a role, its own included, by a profile update.
C39_RoleRaisedBySuperAdmin ==
  [][\A u \in UserIds :
        Rank(storeProfiles'[u].role) > Rank(storeProfiles[u].role) =>
          /\ commits' # commits
          /\ commits'[1].batch.kind \in {"role", "profile"}
          /\ isSuperAdmin(commits'[1].batch.by)]_vars

\* the ids of the tables tbls are pairwise distinct
DistinctIds(tbls) == \A i, j \in DOMAIN tbls : tbls[i].id = tbls[j].id => i = j

\* C36: the tables assign returns have pairwise distinct ids, in both modes
\* and with any existing tables, so the tables collection written from the
\* result has every returned table.
C36_DistinctTableIds ==
  (ret # NoRet /\ "first" \notin DOMAIN ret) =>
    /\ DistinctIds(ret.result)
    /\ Len(TablesAfter(<<>>, SetWrites(ret.result))) = Len(ret.result)

(***************************************************************************)
(* Racing executions under settings that never change: every client holds  *)
(* the stored settings, nobody saves settings, and the clients' copies of  *)
(* the tables may be stale.                                                *)
(***************************************************************************)
InitFixedCap ==
  /\ storeUsers = Registered
  /\ storeSettings \in {st \in SavedSettings : st.maxPeoplePerTable = MinCap}
  /\ storeTables \in {<<>>, Seating(MinCap)}
  /\ currentUser = [c \in Clients |-> InitialAccount(c)]
  /\ users = [c \in Clients |-> UsersSnapshot(storeUsers)]
  /\ settings = [c \in Clients |-> storeSettings]
  /\ \E delivered \in [Clients -> BOOLEAN] :
        /\ tables = [c \in Clients |-> IF delivered[c] THEN storeTables ELSE <<>>]
        /\ myTable = [c \in Clients |->
                        IF delivered[c] THEN MembershipIndex(currentUser[c], storeTables)
                        ELSE NoTable]
        /\ tablesDue = [c \in Clients |-> ~delivered[c] /\ storeTables # <<>>]
  /\ Loaded

NextFixedCap ==
  \/ \E c \in Clients, u \in UserIds : u \in Accounts(c) /\ SignIn(c, u)
  \/ \E c \in Clients : NotifyTables(c)
  \/ \E c \in Clients, v \in {"dashboard", "admin"} : Navigate(c, v)
  \/ \E c \in Clients : handleAssignTable(c)
  \/ \E c \in Clients, t \in 1..NumUsers : handleChangeTable(c, t)
  \/ \E c \in Clients : logout(c)
  \/ \E c \in Clients : \E js \in HandlerDraws(Len(AllMembers(tables[c]))) :
        handleShuffleTables(c, js)
  \/ \E c \in Clients : handleReassignAll(c)
  \/ \E c \in Clients : handleClearAllTables(c)
  \/ \E c \in Clients : Commit(c)
  \/ \E c \in Clients : Fail(c)

SpecFixedCap == InitFixedCap /\ [][NextFixedCap]_vars

\* C37: while the settings stay at one maxPeoplePerTable on every client, no
\* table document of the store has more than maxPeoplePerTable members,
\* however the clients' writes, made from stale copies of the tables,
\* interleave.
C37_StoredTablesWithinCap ==
  /\ \A c \in Clients : settings[c] = storeSettings
  /\ \A i \in DOMAIN storeTables :
        Len(storeTables[i].members) <= storeSettings.maxPeoplePerTable

\* two clients' writes have raced: the later commit was computed from a copy
\* of the tables older than the earlier commit, and a stored table written by
\* it is full
C37_Witness ==
  /\ Len(commits) = 2
  /\ commits[1].batch.by # commits[2].batch.by
  /\ commits[1].batch.snap = commits[2].before
  /\ commits[1].before # commits[2].before
  /\ {commits[1].batch.kind, commits[2].batch.kind} \subseteq MutationKinds
  /\ \E i \in DOMAIN commits[1].batch.writes :
        /\ commits[1].batch.writes[i].op = "set"
        /\ Len(commits[1].batch.writes[i].value) = storeSettings.maxPeoplePerTable

\* C38: a session exit writes at most one document, the table in which the
\* client's copy first has the departing user.  The step in which the exit
\* settles leaves every other table document, the settings document and
\* every user document as they were; the step that signs a client out
\* leaves the users collection and the settings as they were.
C38_ExitWritesOneTable ==
  [][/\ (commits' # commits /\ commits'[1].batch.kind = "exit") =>
          LET b == commits'[1].batch
          IN /\ Len(b.writes) = 1
             /\ b.writes[1].coll = "tables"
             /\ b.writes[1].id = MembershipIndex(b.user, b.snap)
             /\ \A id \in (TableIds(storeTables') \cup TableIds(storeTables))
                            \ {b.writes[1].id} :
                   Doc(storeTables', id) = Doc(storeTables, id)
     /\ \A c \in Clients :
          (currentUser[c] # NoUser /\ currentUser'[c] = NoUser) =>
             /\ storeUsers' = storeUsers
             /\ storeProfiles' = storeProfiles
             /\ storeSettings' = storeSettings]_vars

\* a seated user has left and is signed in nowhere, and the assign of another
\* client, committed next, has seated them again
C38_Witness ==
  /\ Len(commits) = 2
  /\ commits[2].batch.kind = "exit"
  /\ commits[1].batch.kind = "assign"
  /\ commits[1].batch.by # commits[2].batch.by
  /\ \A c \in Clients : currentUser[c] # commits[2].batch.user
  /\ commits[2].batch.user \in Range(storeUsers)
  /\ commits[2].batch.user \in MemberIds(commits[1].batch.result)
  /\ commits[2].batch.user \notin MemberIds(commits[1].before)

====
